---------------------------- MODULE Spec2Model ----------------------------
(***************************************************************************)
(* HyperScan JS Core: the SPCE3200 CPU (register file, ALU primitives,     *)
(* fetch/decode/execute, exception entry and return), the interrupt        *)
(* controller, and the peripherals' interrupt requests.                    *)
(*                                                                         *)
(* A 32-bit word is the set of its set bit positions (a subset of 0..31):  *)
(* TLC's integers are 32-bit signed, so an unsigned 32-bit value does not  *)
(* fit in one.  Bitwise operations are set operations; arithmetic is done  *)
(* on the bits, modulo 2^32 as JavaScript's ">>> 0" does.                  *)
(***************************************************************************)
EXTENDS Integers, FiniteSets, Sequences, TLC

VARIABLES cpu, mem, miu_size, intc, cdrom, spu, vdu, engine, lastOp, ret, g_fails,
          g_entry

vars ==
    <<cpu, mem, miu_size, intc, cdrom, spu, vdu, engine, lastOp, ret, g_fails, g_entry>>

-----------------------------------------------------------------------------
(* Words *)

Bits32 == 0 .. 31

Bit(w, i) == IF i \in w THEN 1 ELSE 0

\* The word of a number below 2^31.
W(n) == {i \in 0 .. 30 : (n \div (2 ^ i)) % 2 = 1}

\* The word 0xHHHHLLLL from its two 16-bit halves.
Hex(hi, lo) ==
    {i \in 0 .. 15 : (lo \div (2 ^ i)) % 2 = 1}
        \cup {i + 16 : i \in {j \in 0 .. 15 : (hi \div (2 ^ j)) % 2 = 1}}

AllOnes == Bits32

RECURSIVE Field(_, _, _)

\* (w >>> lo) & (2^n - 1) as a number: the n-bit field of w at bit lo.
Field(w, lo, n) ==
    IF n = 0 THEN 0 ELSE Bit(w, lo) + 2 * Field(w, lo + 1, n - 1)

Shl(w, n) == {i + n : i \in {j \in w : j + n <= 31}}
Shr(w, n) == {i - n : i \in {j \in w : j >= n}}

And(a, b) == a \cap b
Or(a, b) == a \cup b
Xor(a, b) == (a \ b) \cup (b \ a)
Not32(a) == Bits32 \ a

\* a + b + c on n bits, bit n being the carry out: bit i of the sum is
\* a_i xor b_i xor (the carry into i), and a carry enters i when one is
\* generated at some j < i (or comes in at 0) and propagates up to i.
AddR(a, b, c, i, n) ==
    LET g == (a \cap b) \cap (i .. (n - 1))
        p == (a \cup b) \cap (i .. (n - 1))
        carry(k) ==
            \/ c = 1 /\ (i .. (k - 1)) \subseteq p
            \/ \E j \in g : j >= i /\ j < k /\ ((j + 1) .. (k - 1)) \subseteq p
    IN  {k \in i .. n : ((k \in a /\ k < n) # (k \in b /\ k < n)) # carry(k)}

AddN(a, b) == AddR(a, b, 0, 0, 63)

\* (a + b) >>> 0 and (a - b) >>> 0.
Add32(a, b) == AddR(a, b, 0, 0, 32) \ {32}
Sub32(a, b) == AddR(a, Not32(b), 1, 0, 32) \ {32}

MaxBit(w) == CHOOSE x \in w : \A y \in w : y <= x

\* a > b and a >= b on naturals given as bit sets.
GT(a, b) == a # b /\ MaxBit(Xor(a, b)) \in a
GE(a, b) == a = b \/ MaxBit(Xor(a, b)) \in a

RECURSIVE MulR(_, _, _, _)
\* acc + a * b modulo 2^n, one partial product per set bit of b.
MulR(a, b, n, acc) ==
    IF b = {} THEN acc
    ELSE LET i == CHOOSE x \in b : TRUE
             acc2 == AddR({j + i : j \in {k \in a : k + i < n}}, acc, 0, 0, n) \ {n}
         IN  \* the test evaluates acc2 before the next round
             IF acc2 \subseteq 0 .. n THEN MulR(a, b \ {i}, n, acc2) ELSE {}

\* a * b modulo 2^64.
Mul64(a, b) == MulR(a, b, 64, {})

RECURSIVE DivR(_, _, _, _, _)
\* Restoring division of the 32-bit a by b # 0, from bit i down; q and rem
\* accumulate the quotient and the running remainder.
DivR(a, b, i, q, rem) ==
    IF i < 0 THEN [q |-> q, rem |-> rem]
    ELSE LET r1 == {j + 1 : j \in rem} \cup (IF i \in a THEN {0} ELSE {})
             ge == GE(r1, b)
             r2 == IF ge THEN AddR(r1, (0 .. 33) \ b, 1, 0, 34) \ {34} ELSE r1
             q2 == IF ge THEN q \cup {i} ELSE q
         IN  \* the test evaluates q2 and r2 before the next round
             IF q2 \subseteq Bits32 /\ r2 \subseteq 0 .. 33
             THEN DivR(a, b, i - 1, q2, r2)
             ELSE [q |-> {}, rem |-> {}]

DivMod(a, b) == DivR(a, b, 31, {}, {})

\* Two's complement negation and absolute value of a signed 32-bit word.
Neg32(a) == Sub32({}, a)
Abs32(a) == IF 31 \in a THEN Neg32(a) ELSE a

-----------------------------------------------------------------------------
(* CPU: register file and ALU primitives (cpu_part1.js).  `c` is the CPU   *)
(* object; an operation that returns a value and may update the flags      *)
(* yields [c |-> the CPU after it, res |-> the value].                     *)

Flag(b) == IF b THEN 1 ELSE 0

getRegister(c, idx) == IF idx >= 0 /\ idx < 32 THEN c.r[idx] ELSE {}

setRegister(c, idx, value) ==
    IF idx > 0 /\ idx < 32 THEN [c EXCEPT !.r[idx] = value] ELSE c

setPC(c, addr) == [c EXCEPT !.pc = addr]

setControlRegister(c, idx, value) ==
    IF idx >= 0 /\ idx < 32 THEN [c EXCEPT !.cr[idx] = value] ELSE c

signExtend(x, b) ==
    IF b >= 32 THEN x
    ELSE LET low == x \cap (0 .. (b - 1))
         IN  IF (b - 1) \in low THEN low \cup (b .. 31) ELSE low

updateBasicFlags(c, res) ==
    [c EXCEPT !.N = Bit(res, 31), !.Z = Flag(res = {})]

\* A packing that forgets the T bit.
packSR0WithoutT(c) ==
    [c EXCEPT !.sr[0] = (IF c.N % 2 = 1 THEN {31} ELSE {})
                            \cup (IF c.Z % 2 = 1 THEN {30} ELSE {})
                            \cup (IF c.C % 2 = 1 THEN {29} ELSE {})
                            \cup (IF c.V % 2 = 1 THEN {28} ELSE {})]

packSR0(c) ==
    [c EXCEPT !.sr[0] = (IF c.N % 2 = 1 THEN {31} ELSE {})
                            \cup (IF c.Z % 2 = 1 THEN {30} ELSE {})
                            \cup (IF c.C % 2 = 1 THEN {29} ELSE {})
                            \cup (IF c.V % 2 = 1 THEN {28} ELSE {})
                            \cup (IF c.T % 2 = 1 THEN {0} ELSE {})]

\* An unpacking that reads C and V from each other's bit.
unpackSR0SwappingCV(c) ==
    LET v == c.sr[0]
    IN  [c EXCEPT !.N = Bit(v, 31), !.Z = Bit(v, 30), !.C = Bit(v, 28),
                  !.V = Bit(v, 29), !.T = Bit(v, 0)]

unpackSR0(c) ==
    LET v == c.sr[0]
    IN  [c EXCEPT !.N = Bit(v, 31), !.Z = Bit(v, 30), !.C = Bit(v, 29),
                  !.V = Bit(v, 28), !.T = Bit(v, 0)]

setSystemRegister(c, idx, value) ==
    IF idx >= 0 /\ idx < 32
    THEN LET c1 == [c EXCEPT !.sr[idx] = value]
         IN  IF idx = 0 THEN unpackSR0(c1) ELSE c1
    ELSE c

\* The V flag of the add family, ((~(a ^ b) & (a ^ res)) >>> 31) & 1, and of
\* the subtract family, (((a ^ b) & ~(res ^ b)) >>> 31) & 1.
addOverflow(a, b, res) == Bit(And(Not32(Xor(a, b)), Xor(a, res)), 31)
subOverflow(a, b, res) == Bit(And(Xor(a, b), Not32(Xor(res, b))), 31)

add(c, a, b, updateFlags) ==
    LET res == Add32(a, b)
    IN  [c |-> IF updateFlags
               THEN [updateBasicFlags(c, res) EXCEPT
                        !.C = Flag(GT(b, Sub32(AllOnes, a))),
                        !.V = addOverflow(a, b, res)]
               ELSE c,
         res |-> res]

addc(c, a, b, updateFlags) ==
    LET res == Add32(Add32(a, b), W(c.C))
    IN  [c |-> IF updateFlags
               THEN [updateBasicFlags(c, res) EXCEPT
                        !.C = Flag(GT(AddN(b, W(c.C)), Sub32(AllOnes, a))),
                        !.V = addOverflow(a, b, res)]
               ELSE c,
         res |-> res]

\* A subtraction whose carry is set only when a is strictly greater than b.
subCarryStrict(c, a, b, updateFlags) ==
    LET res == Sub32(a, b)
    IN  [c |-> IF updateFlags
               THEN [updateBasicFlags(c, res) EXCEPT
                        !.C = Flag(GT(a, b)),
                        !.V = subOverflow(a, b, res)]
               ELSE c,
         res |-> res]

sub(c, a, b, updateFlags) ==
    LET res == Sub32(a, b)
    IN  [c |-> IF updateFlags
               THEN [updateBasicFlags(c, res) EXCEPT
                        !.C = Flag(GE(a, b)),
                        !.V = subOverflow(a, b, res)]
               ELSE c,
         res |-> res]

subc(c, a, b, updateFlags) ==
    LET borrow == IF c.C = 0 THEN 1 ELSE 0
        res == Sub32(Sub32(a, b), W(borrow))
    IN  [c |-> IF updateFlags
               THEN [updateBasicFlags(c, res) EXCEPT
                        !.C = Flag(GE(a, AddN(b, W(borrow)))),
                        !.V = subOverflow(a, b, res)]
               ELSE c,
         res |-> res]

neg(c, a, updateFlags) ==
    LET res == Sub32({}, a)
    IN  [c |-> IF updateFlags
               THEN [updateBasicFlags(c, res) EXCEPT
                        !.C = Flag(a = {}), !.V = Flag(a = {31})]
               ELSE c,
         res |-> res]

bitOp(c, a, b, type, updateFlags) ==
    LET res == CASE type = "and" -> And(a, b)
                 [] type = "or" -> Or(a, b)
                 [] type = "xor" -> Xor(a, b)
                 [] type = "not" -> Not32(a)
                 [] OTHER -> {}
    IN  [c |-> IF updateFlags THEN updateBasicFlags(c, res) ELSE c, res |-> res]

\* Shift amounts arrive as words (a register's value or a 5-bit field).
ShiftAmount(sa) == Field(sa, 0, 5)

sll(c, a, saw, updateFlags) ==
    LET sa == ShiftAmount(saw)
        res == Shl(a, sa)
        c1 == updateBasicFlags(c, res)
    IN  [c |-> IF updateFlags
               THEN (IF sa > 0 THEN [c1 EXCEPT !.C = Bit(a, 32 - sa)] ELSE c1)
               ELSE c,
         res |-> res]

srl(c, a, saw, updateFlags) ==
    LET sa == ShiftAmount(saw)
        res == Shr(a, sa)
        c1 == updateBasicFlags(c, res)
    IN  [c |-> IF updateFlags
               THEN (IF sa > 0 THEN [c1 EXCEPT !.C = Bit(a, sa - 1)] ELSE c1)
               ELSE c,
         res |-> res]

sra(c, a, saw, updateFlags) ==
    LET sa == ShiftAmount(saw)
        res == Shr(a, sa) \cup (IF 31 \in a THEN (32 - sa) .. 31 ELSE {})
        c1 == updateBasicFlags(c, res)
    IN  [c |-> IF updateFlags
               THEN (IF sa > 0 THEN [c1 EXCEPT !.C = Bit(a, sa - 1)] ELSE c1)
               ELSE c,
         res |-> res]

ror(c, a, saw, updateFlags) ==
    LET sa == ShiftAmount(saw)
        res == Or(Shr(a, sa), Shl(a, 32 - sa))
    IN  IF sa = 0 THEN [c |-> c, res |-> a]
        ELSE [c |-> IF updateFlags
                    THEN [updateBasicFlags(c, res) EXCEPT !.C = Bit(a, sa - 1)]
                    ELSE c,
              res |-> res]

rol(c, a, saw, updateFlags) ==
    LET sa == ShiftAmount(saw)
        res == Or(Shl(a, sa), Shr(a, 32 - sa))
    IN  IF sa = 0 THEN [c |-> c, res |-> a]
        ELSE [c |-> IF updateFlags
                    THEN [updateBasicFlags(c, res) EXCEPT !.C = Bit(a, 32 - sa)]
                    ELSE c,
              res |-> res]

rorc(c, a, updateFlags) ==
    LET res == Or(Shr(a, 1), IF c.C % 2 = 1 THEN {31} ELSE {})
    IN  [c |-> IF updateFlags
               THEN [updateBasicFlags(c, res) EXCEPT !.C = Bit(a, 0)]
               ELSE c,
         res |-> res]

rolc(c, a, updateFlags) ==
    LET res == Or(Shl(a, 1), IF c.C % 2 = 1 THEN {0} ELSE {})
    IN  [c |-> IF updateFlags
               THEN [updateBasicFlags(c, res) EXCEPT !.C = Bit(a, 31)]
               ELSE c,
         res |-> res]

extsb(c, a, updateFlags) ==
    LET low == a \cap (0 .. 7)
        res == IF 7 \in low THEN low \cup (8 .. 31) ELSE low
    IN  [c |-> IF updateFlags THEN updateBasicFlags(c, res) ELSE c, res |-> res]

extsh(c, a, updateFlags) ==
    LET low == a \cap (0 .. 15)
        res == IF 15 \in low THEN low \cup (16 .. 31) ELSE low
    IN  [c |-> IF updateFlags THEN updateBasicFlags(c, res) ELSE c, res |-> res]

extzb(c, a, updateFlags) ==
    LET res == a \cap (0 .. 7)
    IN  [c |-> IF updateFlags THEN updateBasicFlags(c, res) ELSE c, res |-> res]

extzh(c, a, updateFlags) ==
    LET res == a \cap (0 .. 15)
    IN  [c |-> IF updateFlags THEN updateBasicFlags(c, res) ELSE c, res |-> res]

\* The bit index is a 5-bit instruction field, a number.
bitclr(c, a, bitIdx, updateFlags) ==
    LET res == a \ {bitIdx % 32}
    IN  [c |-> IF updateFlags THEN updateBasicFlags(c, res) ELSE c, res |-> res]

bitset(c, a, bitIdx, updateFlags) ==
    LET res == a \cup {bitIdx % 32}
    IN  [c |-> IF updateFlags THEN updateBasicFlags(c, res) ELSE c, res |-> res]

bittst(c, a, bitIdx) ==
    LET t == Flag((bitIdx % 32) \in a)
    IN  [c EXCEPT !.T = t, !.Z = IF t = 1 THEN 0 ELSE 1]

bittgl(c, a, bitIdx, updateFlags) ==
    LET res == Xor(a, {bitIdx % 32})
    IN  [c |-> IF updateFlags THEN updateBasicFlags(c, res) ELSE c, res |-> res]

conditional(c, cond) ==
    LET k == cond % 16
    IN  CASE k = 0 -> c.C = 1
          [] k = 1 -> c.C = 0
          [] k = 2 -> c.C = 1 /\ c.Z = 0
          [] k = 3 -> c.C = 0 \/ c.Z = 1
          [] k = 4 -> c.Z = 1
          [] k = 5 -> c.Z = 0
          [] k = 6 -> c.N = c.V /\ c.Z = 0
          [] k = 7 -> c.N # c.V \/ c.Z = 1
          [] k = 8 -> c.N = c.V
          [] k = 9 -> c.N # c.V
          [] k = 10 -> c.N = 1
          [] k = 11 -> c.N = 0
          [] k = 12 -> c.V = 1
          [] k = 13 -> c.V = 0
          [] k = 14 -> c.T = 1
          [] OTHER -> TRUE

\* The signed product is the unsigned product of the magnitudes, negated
\* (two's complement on 64 bits) when the signs differ.
execMul(c, a, b) ==
    LET m == Mul64(Abs32(a), Abs32(b))
        res == IF (31 \in a) # (31 \in b)
               THEN AddR((0 .. 63) \ m, {}, 1, 0, 64) \ {64}
               ELSE m
    IN  [c EXCEPT !.CEL = res \cap Bits32, !.CEH = {i - 32 : i \in res \ Bits32}]

execMulu(c, a, b) ==
    LET res == Mul64(a, b)
    IN  [c EXCEPT !.CEL = res \cap Bits32, !.CEH = {i - 32 : i \in res \ Bits32}]

\* Math.trunc(sA / sB) >>> 0 and (sA % sB) >>> 0: the quotient truncates
\* toward zero and the remainder takes the dividend's sign.
execDiv(c, a, b) ==
    IF b # {}
    THEN LET d == DivMod(Abs32(a), Abs32(b))
             q == d.q \cap Bits32
             rm == d.rem \cap Bits32
         IN  [c EXCEPT !.CEL = IF (31 \in a) # (31 \in b) THEN Neg32(q) ELSE q,
                       !.CEH = IF 31 \in a THEN Neg32(rm) ELSE rm]
    ELSE c

\* An unsigned divide that reports a zero divisor with an all-ones quotient.
execDivuSaturating(c, a, b) ==
    IF b # {}
    THEN LET d == DivMod(a, b)
         IN  [c EXCEPT !.CEL = d.q \cap Bits32, !.CEH = d.rem \cap Bits32]
    ELSE [c EXCEPT !.CEL = AllOnes, !.CEH = a]

execDivu(c, a, b) ==
    IF b # {}
    THEN LET d == DivMod(a, b)
         IN  [c EXCEPT !.CEL = d.q \cap Bits32, !.CEH = d.rem \cap Bits32]
    ELSE c

moveFromCE(c, rD, rB) ==
    LET k == rB % 4
    IN  CASE k = 1 -> setRegister(c, rD, c.CEL)
          [] k = 2 -> setRegister(c, rD, c.CEH)
          [] k = 3 -> LET c1 == setRegister(c, rD, c.CEL)
                      IN  IF rD < 31 THEN setRegister(c1, rD + 1, c1.CEH) ELSE c1
          [] OTHER -> c

moveToCE(c, rD, rB) ==
    LET k == rB % 4
    IN  CASE k = 1 -> [c EXCEPT !.CEL = c.r[rD]]
          [] k = 2 -> [c EXCEPT !.CEH = c.r[rD]]
          [] k = 3 -> LET c1 == [c EXCEPT !.CEL = c.r[rD]]
                      IN  IF rD < 31 THEN [c1 EXCEPT !.CEH = c1.r[rD + 1]] ELSE c1
          [] OTHER -> c

-----------------------------------------------------------------------------
(* JavaScript argument values.  An interrupt number or an exception cause  *)
(* is whatever the caller passes: an integer, null, undefined or an        *)
(* object (a CPU passed where a number is expected).                       *)

JInt(n) == [t |-> "int", v |-> n]
JNull == [t |-> "null", v |-> 0]
JUndef == [t |-> "undefined", v |-> 0]
JObj == [t |-> "object", v |-> 0]

\* 1 << x: ToInt32 of an object is 0, the shift count is taken modulo 32.
ShiftCount(x) == IF x.t = "int" THEN x.v % 32 ELSE 0

\* x < 0 || x > 31: both comparisons are false for an object (NaN).
OutOfRange(x) == x.t = "int" /\ (x.v < 0 \/ x.v > 31)

-----------------------------------------------------------------------------
(* Exception entry and return (part_002).                                  *)

CauseField == 18 .. 23

\* An exception entry that overwrites cr[2] instead of merging the cause.
exceptionOverwritingCR2(c, cause) ==
    LET c1 == packSR0(c)
        code == IF cause.t = "int" THEN cause.v % 64 ELSE 0
        target == IF cause.t = "int"
                  THEN Add32(c1.cr[3], W(cause.v * 4))
                  ELSE {}
    IN  [c1 EXCEPT !.cr[1] = c1.sr[0],
                   !.cr[2] = Shl(W(code), 18),
                   !.cr[5] = c1.pc,
                   !.cr[0] = @ \ {0},
                   !.pc = target]

\* An exception that keeps the level saved by an entry not yet returned from.
exceptionKeepingSavedLevel(c, cause) ==
    LET c1 == packSR0(c)
        code == IF cause.t = "int" THEN cause.v % 64 ELSE 0
        target == IF cause.t = "int"
                  THEN Add32(c1.cr[3], W(cause.v * 4))
                  ELSE {}
        nested == c1.cr[5] # {}
    IN  [c1 EXCEPT !.cr[1] = IF nested THEN @ ELSE c1.sr[0],
                   !.cr[2] = (@ \ CauseField) \cup Shl(W(code), 18),
                   !.cr[5] = IF nested THEN @ ELSE c1.pc,
                   !.cr[0] = @ \ {0},
                   !.pc = target]

exception(c, cause) ==
    LET c1 == packSR0(c)
        code == IF cause.t = "int" THEN cause.v % 64 ELSE 0
        target == IF cause.t = "int"
                  THEN Add32(c1.cr[3], W(cause.v * 4))
                  ELSE {}
    IN  [c1 EXCEPT !.cr[1] = c1.sr[0],
                   !.cr[2] = (@ \ CauseField) \cup Shl(W(code), 18),
                   !.cr[5] = c1.pc,
                   !.cr[0] = @ \ {0},
                   !.pc = target]

rte(c) ==
    LET c1 == unpackSR0([c EXCEPT !.sr[0] = c.cr[1]])
    IN  [c1 EXCEPT !.pc = c1.cr[5]]

-----------------------------------------------------------------------------
(* Memory interface: the segment router and its backing arrays.  The top   *)
(* byte of an address selects the segment; DRAM and FLASH are byte arrays, *)
(* every other segment reads 0 and drops writes.  `m` maps the addresses   *)
(* of the non-zero bytes to their values.                                  *)

SEGMENT_DRAM == 160
SEGMENT_FLASH == 158
FlashOffsetBits == 23

Segment(a) == Field(a, 24, 8)

Backed(a) ==
    \/ Segment(a) = SEGMENT_DRAM
    \/ Segment(a) = SEGMENT_FLASH /\ FlashOffsetBits \notin a

readByte(m, a) == IF Backed(a) /\ a \in DOMAIN m THEN m[a] ELSE {}

writeByte(m, a, b) ==
    IF ~Backed(a) THEN m
    ELSE IF b = {} THEN [x \in DOMAIN m \ {a} |-> m[x]]
    ELSE [x \in DOMAIN m \cup {a} |-> IF x = a THEN b ELSE m[x]]

ByteOf(v, k) == Shr(v, 8 * k) \cap (0 .. 7)

readU8(m, a) == readByte(m, a)

readU16(m, a) ==
    readByte(m, a) \cup Shl(readByte(m, Add32(a, {0})), 8)

readU32(m, a) ==
    readByte(m, a) \cup Shl(readByte(m, Add32(a, {0})), 8)
        \cup Shl(readByte(m, Add32(a, {1})), 16)
        \cup Shl(readByte(m, Add32(a, {0, 1})), 24)

writeU8(m, a, v) == writeByte(m, a, ByteOf(v, 0))

writeU16(m, a, v) ==
    writeByte(writeByte(m, a, ByteOf(v, 0)), Add32(a, {0}), ByteOf(v, 1))

writeU32(m, a, v) ==
    writeByte(
        writeByte(
            writeByte(writeByte(m, a, ByteOf(v, 0)), Add32(a, {0}), ByteOf(v, 1)),
            Add32(a, {1}), ByteOf(v, 2)),
        Add32(a, {0, 1}), ByteOf(v, 3))

-----------------------------------------------------------------------------
(* Instruction executors (part_002, cpu_part3.js).  Each yields the CPU,   *)
(* the memory and the byte-length delta the executor returns.              *)

R(c, m, d) == [c |-> c, m |-> m, d |-> d]

\* this.setRegister(rD, <a primitive returning x.res and leaving x.c>)
SetRes(x, rD) == setRegister(x.c, rD, x.res)

FieldW(insn, lo, n) == Shr(insn, lo) \cap (0 .. (n - 1))

HasMiu(c) == c.miu # "none"

execSpForm(c, m, insn) ==
    LET rD == Field(insn, 22, 5)
        rA == Field(insn, 17, 5)
        rB == Field(insn, 12, 5)
        func6 == Field(insn, 1, 6)
        CU == Bit(insn, 0) = 1
        a == c.r[rA]
        b == c.r[rB]
    IN  CASE func6 = 1 -> R(exception(c, JInt(1)), m, 4)
          [] func6 = 2 ->
                R(IF conditional(c, rB) THEN exception(c, JInt(2)) ELSE c, m, 4)
          [] func6 = 3 -> R(exception(c, JInt(3)), m, 4)
          [] func6 = 4 ->
                IF conditional(c, rB)
                THEN LET c1 == IF CU THEN setRegister(c, 3, Add32(c.pc, {2})) ELSE c
                     IN  R([c1 EXCEPT !.pc = c1.r[rA]], m, 0)
                ELSE R(c, m, 4)
          [] func6 = 6 ->
                R(IF HasMiu(c) THEN setRegister(c, rD, readU32(m, a)) ELSE c, m, 4)
          [] func6 = 7 ->
                R(c, IF HasMiu(c) THEN writeU32(m, a, c.r[rD]) ELSE m, 4)
          [] func6 = 8 -> R(SetRes(add(c, a, b, CU), rD), m, 4)
          [] func6 = 9 -> R(SetRes(addc(c, a, b, CU), rD), m, 4)
          [] func6 = 10 -> R(SetRes(sub(c, a, b, CU), rD), m, 4)
          [] func6 = 11 -> R(SetRes(subc(c, a, b, CU), rD), m, 4)
          [] func6 = 12 -> R(sub(c, a, b, TRUE).c, m, 4)
          [] func6 = 13 -> R(sub(c, a, {}, TRUE).c, m, 4)
          [] func6 = 15 -> R(SetRes(neg(c, a, CU), rD), m, 4)
          [] func6 = 16 -> R(SetRes(bitOp(c, a, b, "and", CU), rD), m, 4)
          [] func6 = 17 -> R(SetRes(bitOp(c, a, b, "or", CU), rD), m, 4)
          [] func6 = 18 -> R(SetRes(bitOp(c, a, {}, "not", CU), rD), m, 4)
          [] func6 = 19 -> R(SetRes(bitOp(c, a, b, "xor", CU), rD), m, 4)
          [] func6 = 20 -> R(SetRes(bitclr(c, a, rB, CU), rD), m, 4)
          [] func6 = 21 -> R(SetRes(bitset(c, a, rB, CU), rD), m, 4)
          [] func6 = 22 -> R(bittst(c, a, rB), m, 4)
          [] func6 = 23 -> R(SetRes(bittgl(c, a, rB, CU), rD), m, 4)
          [] func6 = 24 -> R(SetRes(sll(c, a, b, CU), rD), m, 4)
          [] func6 = 26 -> R(SetRes(srl(c, a, b, CU), rD), m, 4)
          [] func6 = 27 -> R(SetRes(sra(c, a, b, CU), rD), m, 4)
          [] func6 = 28 -> R(SetRes(ror(c, a, b, CU), rD), m, 4)
          [] func6 = 29 -> R(SetRes(rorc(c, a, CU), rD), m, 4)
          [] func6 = 30 -> R(SetRes(rol(c, a, b, CU), rD), m, 4)
          [] func6 = 31 -> R(SetRes(rolc(c, a, CU), rD), m, 4)
          [] func6 = 32 -> R(execMul(c, a, b), m, 4)
          [] func6 = 33 -> R(execMulu(c, a, b), m, 4)
          [] func6 = 34 -> R(execDiv(c, a, b), m, 4)
          [] func6 = 35 -> R(execDivu(c, a, b), m, 4)
          [] func6 = 36 -> R(moveFromCE(c, rD, rB), m, 4)
          [] func6 = 37 -> R(moveToCE(c, rD, rB), m, 4)
          [] func6 = 40 -> R(setRegister(c, rD, c.sr[rB]), m, 4)
          [] func6 = 41 ->
                LET c1 == [c EXCEPT !.sr[rB] = a]
                IN  R(IF rB = 0 THEN unpackSR0(c1) ELSE c1, m, 4)
          [] func6 = 42 -> R([c EXCEPT !.T = Flag(conditional(c, rB))], m, 4)
          [] func6 = 43 ->
                R(IF conditional(c, rB) THEN setRegister(c, rD, a) ELSE c, m, 4)
          [] func6 = 44 -> R(SetRes(extsb(c, a, CU), rD), m, 4)
          [] func6 = 45 -> R(SetRes(extsh(c, a, CU), rD), m, 4)
          [] func6 = 46 -> R(SetRes(extzb(c, a, CU), rD), m, 4)
          [] func6 = 47 -> R(SetRes(extzh(c, a, CU), rD), m, 4)
          [] func6 = 48 ->
                R(IF HasMiu(c) THEN setRegister(c, rD, readU8(m, a)) ELSE c, m, 4)
          [] func6 = 49 ->
                R(IF HasMiu(c) THEN setRegister(c, rD, readU32(m, a)) ELSE c, m, 4)
          [] func6 = 52 ->
                R(c, IF HasMiu(c) THEN writeU8(m, a, c.r[rD] \cap (0 .. 7)) ELSE m, 4)
          [] func6 = 53 ->
                R(c, IF HasMiu(c) THEN writeU32(m, a, c.r[rD]) ELSE m, 4)
          [] func6 = 56 -> R(SetRes(sll(c, a, W(rB), CU), rD), m, 4)
          [] func6 = 58 -> R(SetRes(srl(c, a, W(rB), CU), rD), m, 4)
          [] func6 = 59 -> R(SetRes(sra(c, a, W(rB), CU), rD), m, 4)
          [] func6 = 60 -> R(SetRes(ror(c, a, W(rB), CU), rD), m, 4)
          [] func6 = 61 -> R(SetRes(rorc(c, a, TRUE), rD), m, 4)
          [] func6 = 62 -> R(SetRes(rol(c, a, W(rB), CU), rD), m, 4)
          [] func6 = 63 -> R(rte(c), m, 0)
          [] OTHER -> R(c, m, 4)

execIForm(c, m, insn) ==
    LET OP == Field(insn, 27, 5)
        rD == Field(insn, 22, 5)
        func3 == Field(insn, 19, 3)
        imm16 == signExtend(FieldW(insn, 1, 16), 16)
        imm == IF OP = 5 THEN Shl(imm16, 16) ELSE imm16
        d == c.r[rD]
    IN  IF OP = 1 \/ OP = 5
        THEN CASE func3 = 0 -> R(SetRes(add(c, d, imm, FALSE), rD), m, 4)
               [] func3 = 2 -> R(sub(c, d, imm, TRUE).c, m, 4)
               [] func3 = 4 -> R(SetRes(bitOp(c, d, imm, "and", FALSE), rD), m, 4)
               [] func3 = 5 -> R(SetRes(bitOp(c, d, imm, "or", FALSE), rD), m, 4)
               [] func3 = 6 -> R(setRegister(c, rD, imm), m, 4)
               [] OTHER -> R(c, m, 4)
        ELSE R(c, m, 4)

\* A J-Form that takes the 24-bit displacement as unsigned.
execJFormUnsigned(c, m, insn) ==
    LET LK == Bit(insn, 0) = 1
        target == Add32(c.pc, Shl(FieldW(insn, 1, 24), 1))
        c1 == IF LK THEN setRegister(c, 3, Add32(c.pc, {2})) ELSE c
    IN  R([c1 EXCEPT !.pc = target], m, 0)

execJForm(c, m, insn) ==
    LET LK == Bit(insn, 0) = 1
        signed_disp == signExtend(FieldW(insn, 1, 24), 24)
        target == Add32(c.pc, Shl(signed_disp, 1))
        c1 == IF LK THEN setRegister(c, 3, Add32(c.pc, {2})) ELSE c
    IN  R([c1 EXCEPT !.pc = target], m, 0)

execBForm(c, m, insn) ==
    LET LK == Bit(insn, 0) = 1
        BC == Field(insn, 23, 4)
        disp22 == Shl(FieldW(insn, 9, 14), 8) \cup FieldW(insn, 1, 8)
        signed_disp == signExtend(disp22, 22)
        target == Add32(c.pc, Shl(signed_disp, 1))
    IN  IF conditional(c, BC)
        THEN LET c1 == IF LK THEN setRegister(c, 3, Add32(c.pc, {2})) ELSE c
             IN  R([c1 EXCEPT !.pc = target], m, 0)
        ELSE R(c, m, 4)

\* The load/store selected by the 3-bit function code, shared by the RIX
\* form (func3) and the memory form (OP - 0x10).
loadStore(c, m, k, rD, addr) ==
    CASE k = 0 -> R(setRegister(c, rD, readU32(m, addr)), m, 4)
      [] k = 1 -> R(setRegister(c, rD, signExtend(readU16(m, addr), 16)), m, 4)
      [] k = 2 -> R(setRegister(c, rD, readU16(m, addr)), m, 4)
      [] k = 3 -> R(setRegister(c, rD, signExtend(readU8(m, addr), 8)), m, 4)
      [] k = 4 -> R(c, writeU32(m, addr, c.r[rD]), 4)
      [] k = 5 -> R(c, writeU16(m, addr, c.r[rD]), 4)
      [] k = 6 -> R(setRegister(c, rD, readU8(m, addr)), m, 4)
      [] OTHER -> R(c, writeU8(m, addr, c.r[rD]), 4)

execRixForm(c, m, insn) ==
    LET OP == Field(insn, 27, 5)
        rD == Field(insn, 22, 5)
        rA == Field(insn, 17, 5)
        imm12 == signExtend(FieldW(insn, 5, 12), 12)
        func3 == Field(insn, 2, 3)
        addr == Add32(c.r[rA], imm12)
        x == loadStore(c, m, func3, rD, addr)
    IN  IF ~HasMiu(c) THEN R(c, m, 4)
        ELSE IF OP = 3 THEN R([x.c EXCEPT !.r[rA] = addr], x.m, 4)
        ELSE x

execMemoryForm(c, m, insn) ==
    LET OP == Field(insn, 27, 5)
        rD == Field(insn, 22, 5)
        rA == Field(insn, 17, 5)
        imm15 == signExtend(FieldW(insn, 2, 15), 15)
        addr == Add32(c.r[rA], imm15)
    IN  IF ~HasMiu(c) THEN R(c, m, 4)
        ELSE loadStore(c, m, OP - 16, rD, addr)

exec16(c, m, insn) ==
    LET OP == Field(insn, 13, 3)
        rD == Field(insn, 1, 4)
        rA == Field(insn, 5, 4)
        func4 == Field(insn, 9, 4)
        H == Bit(insn, 5)
        targetReg == rD + (IF H = 1 THEN 16 ELSE 0)
        stackReg == Field(insn, 6, 3)
        imm5 == FieldW(insn, 5, 5)
        imm11 == signExtend(FieldW(insn, 5, 11), 11)
        spAddr == Add32(c.r[stackReg], Shl(imm5, 2))
    IN  CASE OP = 0 ->
              (CASE func4 = 0 -> R(setRegister(c, rD + 16, c.r[rA + 16]), m, 2)
                 [] func4 = 1 -> R(setRegister(c, rD, c.r[rA]), m, 2)
                 [] func4 = 3 -> R(setRegister(c, rD, c.r[rA]), m, 2)
                 [] func4 = 4 -> R([c EXCEPT !.pc = c.r[rA]], m, 0)
                 [] func4 = 5 ->
                      LET c1 == setRegister(c, 3, Add32(c.pc, {1}))
                      IN  R([c1 EXCEPT !.pc = c1.r[rA]], m, 0)
                 [] func4 = 6 ->
                      R([c EXCEPT !.pc = Add32(c.pc, Shl(imm11, 1))], m, 0)
                 [] func4 = 7 ->
                      LET c1 == setRegister(c, 3, Add32(c.pc, {1}))
                      IN  R([c1 EXCEPT !.pc = Add32(c.pc, Shl(imm11, 1))], m, 0)
                 [] func4 = 11 -> R(exception(c, JInt(9)), m, 2)
                 [] OTHER -> R(c, m, 2))
          [] OP = 2 ->
              (CASE func4 = 0 -> R(SetRes(add(c, c.r[rD], c.r[rA], TRUE), rD), m, 2)
                 [] func4 = 1 -> R(SetRes(add(c, c.r[rD], imm5, TRUE), rD), m, 2)
                 [] func4 = 2 -> R(SetRes(sub(c, c.r[rD], imm5, TRUE), rD), m, 2)
                 [] func4 = 3 -> R(setRegister(c, rD, imm5), m, 2)
                 [] func4 = 4 -> R(setRegister(c, rD, Shl(imm5, 11)), m, 2)
                 [] func4 = 5 ->
                      R(SetRes(bitOp(c, c.r[rD], c.r[rA], "and", TRUE), rD), m, 2)
                 [] func4 = 6 ->
                      R(SetRes(bitOp(c, c.r[rD], c.r[rA], "or", TRUE), rD), m, 2)
                 [] func4 = 7 ->
                      R(SetRes(bitOp(c, c.r[rD], c.r[rA], "xor", TRUE), rD), m, 2)
                 [] func4 = 8 ->
                      R(SetRes(bitOp(c, c.r[rD], {}, "not", TRUE), rD), m, 2)
                 [] func4 = 9 -> R(SetRes(neg(c, c.r[rD], TRUE), rD), m, 2)
                 [] func4 = 10 ->
                      R(IF HasMiu(c)
                        THEN setRegister(c, targetReg, readU32(m, spAddr))
                        ELSE c, m, 2)
                 [] func4 = 11 ->
                      R(c, IF HasMiu(c)
                           THEN writeU32(m, spAddr, c.r[targetReg])
                           ELSE m, 2)
                 [] func4 = 12 -> R(SetRes(sub(c, c.r[rD], c.r[rA], TRUE), rD), m, 2)
                 [] func4 = 14 ->
                      LET c1 == [c EXCEPT !.r[stackReg] = Sub32(@, {2})]
                      IN  R(c1, IF HasMiu(c1)
                                THEN writeU32(m, c1.r[stackReg], c1.r[targetReg])
                                ELSE m, 2)
                 [] func4 = 15 ->
                      LET c1 == IF HasMiu(c)
                                THEN setRegister(c, targetReg,
                                                 readU32(m, c.r[stackReg]))
                                ELSE c
                      IN  R([c1 EXCEPT !.r[stackReg] = Add32(@, {2})], m, 2)
                 [] OTHER -> R(c, m, 2))
          [] OP = 3 ->
              LET addr == Add32(c.r[rA], Shl(FieldW(insn, 4, 5), 2))
              IN  IF Bit(insn, 12) = 1
                  THEN R(c, IF HasMiu(c) THEN writeU32(m, addr, c.r[rD]) ELSE m, 2)
                  ELSE R(IF HasMiu(c)
                         THEN setRegister(c, rD, readU32(m, addr))
                         ELSE c, m, 2)
          [] OP = 4 ->
              LET cond == Field(insn, 10, 4)
                  imm8 == signExtend(FieldW(insn, 1, 8), 8)
              IN  IF conditional(c, cond)
                  THEN R([c EXCEPT !.pc = Add32(c.pc, Shl(imm8, 1))], m, 0)
                  ELSE R(c, m, 2)
          [] OP = 5 ->
              LET func3 == Field(insn, 10, 3)
              IN  CASE func3 = 0 -> R(SetRes(sll(c, c.r[rD], imm5, TRUE), rD), m, 2)
                    [] func3 = 2 -> R(SetRes(srl(c, c.r[rD], imm5, TRUE), rD), m, 2)
                    [] func3 = 3 -> R(SetRes(sra(c, c.r[rD], imm5, TRUE), rD), m, 2)
                    [] func3 = 4 -> R(SetRes(rol(c, c.r[rD], imm5, TRUE), rD), m, 2)
                    [] func3 = 5 -> R(SetRes(ror(c, c.r[rD], imm5, TRUE), rD), m, 2)
                    [] OTHER -> R(c, m, 2)
          [] OP = 6 ->
              LET func3 == Field(insn, 10, 3)
              IN  CASE func3 = 0 -> R(SetRes(extsb(c, c.r[rD], TRUE), rD), m, 2)
                    [] func3 = 1 -> R(SetRes(extsh(c, c.r[rD], TRUE), rD), m, 2)
                    [] func3 = 2 -> R(SetRes(extzb(c, c.r[rD], TRUE), rD), m, 2)
                    [] func3 = 3 -> R(SetRes(extzh(c, c.r[rD], TRUE), rD), m, 2)
                    [] OTHER -> R(c, m, 2)
          [] OP = 7 ->
              LET addr == Add32(c.r[2], Shl(imm5, 2))
              IN  IF Bit(insn, 10) = 1
                  THEN R(c, IF HasMiu(c) THEN writeU32(m, addr, c.r[rD]) ELSE m, 2)
                  ELSE R(IF HasMiu(c)
                         THEN setRegister(c, rD, readU32(m, addr))
                         ELSE c, m, 2)
          [] OTHER -> R(c, m, 2)

-----------------------------------------------------------------------------
(* The fetch-decode-execute cycle.  `miu` is "none" (no interface), "miu"  *)
(* (the segment router) or "bare" (an object accepted by initializeCPU     *)
(* that has neither a size nor a readU32 method, so that the fetch         *)
(* throws).  A step yields the CPU, the memory and the value returned.     *)

FaultLimit == 100

\* The breakpoint manager (cpu_part1.js).  `breakpoints` maps an address to
\* its breakpoint; a breakpoint's condition is "none" or the outcome of the
\* host's predicate ("true", "false", "throws"), its callback changes
\* nothing.
NewBreakpointManager ==
    [attached |-> TRUE, breakpoints |-> [a \in {} |-> {}], paused |-> FALSE,
     lastBreakpoint |-> "null"]

NoBreakpointManager == [NewBreakpointManager EXCEPT !.attached = FALSE]

Breakpoint(temporary, condition) ==
    [enabled |-> TRUE, hitCount |-> 0, temporary |-> temporary,
     condition |-> condition]

addBreakpoint(bm, addr, bp) ==
    IF addr \in DOMAIN bm.breakpoints THEN bm
    ELSE [bm EXCEPT !.breakpoints =
              [a \in DOMAIN @ \cup {addr} |-> IF a = addr THEN bp ELSE @[a]]]

removeBreakpoint(bm, addr) ==
    [bm EXCEPT !.breakpoints = [a \in DOMAIN @ \ {addr} |-> @[a]]]

setEnabled(bm, addr, enabled) ==
    IF addr \in DOMAIN bm.breakpoints
    THEN [bm EXCEPT !.breakpoints[addr].enabled = enabled]
    ELSE bm

\* A check that removes a temporary breakpoint without reporting the hit.
checkBreakpointDroppingTemporary(bm, addr) ==
    IF addr \notin DOMAIN bm.breakpoints THEN [bm |-> bm, hit |-> FALSE]
    ELSE LET bp == bm.breakpoints[addr]
             counted == [bm EXCEPT !.breakpoints[addr].hitCount = @ + 1,
                                   !.lastBreakpoint = addr]
         IN  IF ~bp.enabled \/ bp.condition \in {"false", "throws"}
             THEN [bm |-> bm, hit |-> FALSE]
             ELSE IF bp.temporary
             THEN [bm |-> removeBreakpoint(counted, addr), hit |-> FALSE]
             ELSE [bm |-> counted, hit |-> TRUE]

\* checkBreakpoint(addr): the manager afterwards and whether it hit.
checkBreakpoint(bm, addr) ==
    IF addr \notin DOMAIN bm.breakpoints THEN [bm |-> bm, hit |-> FALSE]
    ELSE LET bp == bm.breakpoints[addr]
             counted == [bm EXCEPT !.breakpoints[addr].hitCount = @ + 1,
                                   !.lastBreakpoint = addr]
         IN  IF ~bp.enabled \/ bp.condition \in {"false", "throws"}
             THEN [bm |-> bm, hit |-> FALSE]
             ELSE [bm |-> IF bp.temporary
                          THEN removeBreakpoint(counted, addr)
                          ELSE counted,
                   hit |-> TRUE]

\* this.pc > this.miu.size: false when the size is undefined.
pcBeyondSize(c, size) == c.miu = "miu" /\ GT(c.pc, size)

dispatch(c, m, encoded) ==
    LET OP == Field(encoded, 27, 5)
    IN  CASE OP = 0 -> execSpForm(c, m, encoded)
          [] OP \in {1, 5} -> execIForm(c, m, encoded)
          [] OP = 2 -> execJForm(c, m, encoded)
          [] OP \in {3, 7} -> execRixForm(c, m, encoded)
          [] OP = 4 -> execBForm(c, m, encoded)
          [] OP \in 16 .. 23 -> execMemoryForm(c, m, encoded)
          [] OP \in (8 .. 15) \cup (24 .. 31) ->
                exec16(c, m, encoded \cap (0 .. 15))
          [] OTHER -> R(c, m, 4)

S(c, m, v) == [c |-> c, m |-> m, ret |-> v]

OriginalCPUStep(c, m, size) ==
    IF ~c.initialized THEN S(c, m, FALSE)
    ELSE IF c.halted THEN S(c, m, FALSE)
    ELSE IF ~HasMiu(c)
    THEN LET n == c.fault_count + 1
         IN  S([c EXCEPT !.fault_count = n,
                         !.last_error = "MIU",
                         !.halted = IF n > FaultLimit THEN TRUE ELSE @],
               m, FALSE)
    ELSE LET c0 == [c EXCEPT !.fault_count = 0]
         IN  IF pcBeyondSize(c0, size)
             THEN S(exception(c0, JInt(255)), m, FALSE)
             ELSE IF c0.breakpointManager.attached
                     /\ checkBreakpoint(c0.breakpointManager, c0.pc).hit
             THEN S([c0 EXCEPT !.breakpointManager =
                         [checkBreakpoint(@, c0.pc).bm EXCEPT !.paused = TRUE]],
                    m, FALSE)
             ELSE IF c0.miu = "bare"
             THEN S([c0 EXCEPT !.last_error = "thrown", !.fault_count = @ + 1],
                    m, FALSE)
             ELSE LET x == dispatch(c0, m, readU32(m, c0.pc))
                      c1 == IF x.d # 0
                            THEN [x.c EXCEPT !.pc = Add32(@, W(x.d))]
                            ELSE x.c
                  IN  S([c1 EXCEPT !.cycles = @ + 1, !.instructions = @ + 1],
                        x.m, TRUE)

\* A step() that counts a fault before it notices the CPU is halted.
stepCountingWhileHalted(c, m, size) ==
    IF ~HasMiu(c) \/ c.halted
    THEN S([c EXCEPT !.fault_count = @ + 1], m, FALSE)
    ELSE OriginalCPUStep([c EXCEPT !.fault_count = 0], m, size)

\* A step() that takes an attached memory interface for an initialized CPU.
stepInitializingOnDemand(c, m, size) ==
    IF c.halted THEN S(c, m, FALSE)
    ELSE IF ~HasMiu(c)
    THEN S([c EXCEPT !.fault_count = @ + 1], m, FALSE)
    ELSE OriginalCPUStep([c EXCEPT !.fault_count = 0, !.initialized = TRUE],
                         m, size)

\* A step() that charges a cycle for a step that fails.
stepChargingFailures(c, m, size) ==
    IF c.halted THEN S(c, m, FALSE)
    ELSE IF ~HasMiu(c)
    THEN S([c EXCEPT !.fault_count = @ + 1], m, FALSE)
    ELSE LET x == OriginalCPUStep([c EXCEPT !.fault_count = 0], m, size)
         IN  IF x.ret THEN x ELSE S([x.c EXCEPT !.cycles = @ + 1], x.m, FALSE)

\* CPU.prototype.step as main.js replaces it: a wrapper of the original.
step(c, m, size) ==
    IF c.halted THEN S(c, m, FALSE)
    ELSE IF ~HasMiu(c)
    THEN S([c EXCEPT !.fault_count = @ + 1], m, FALSE)
    ELSE OriginalCPUStep([c EXCEPT !.fault_count = 0], m, size)

-----------------------------------------------------------------------------
(* CPU construction and life cycle (cpu_part1.js, part_002, main.js).      *)

Regs0 == [i \in 0 .. 31 |-> {}]

\* A reset that also forgets the memory interface and the initialization.
resetForgettingInterface(c) ==
    [c EXCEPT !.r = Regs0, !.cr = Regs0, !.sr = Regs0, !.CEL = {}, !.CEH = {},
              !.pc = {}, !.N = 0, !.Z = 0, !.C = 0, !.V = 0, !.T = 0,
              !.cycles = 0, !.instructions = 0, !.halted = FALSE,
              !.miu = "none", !.initialized = FALSE]

reset(c) ==
    [c EXCEPT !.r = Regs0, !.cr = Regs0, !.sr = Regs0, !.CEL = {}, !.CEH = {},
              !.pc = {}, !.N = 0, !.Z = 0, !.C = 0, !.V = 0, !.T = 0,
              !.cycles = 0, !.instructions = 0, !.halted = FALSE]

\* new CPU(miu): initialized, fault_count, last_error and breakpointManager
\* are not yet properties of the object (read as false, 0, null and absent).
NewCPU(miu) ==
    [miu |-> miu, r |-> Regs0, cr |-> Regs0, sr |-> Regs0, CEL |-> {}, CEH |-> {},
     pc |-> {}, N |-> 0, Z |-> 0, C |-> 0, V |-> 0, T |-> 0,
     cycles |-> 0, instructions |-> 0, halted |-> FALSE,
     initialized |-> FALSE, fault_count |-> 0, last_error |-> "null",
     breakpointManager |-> NoBreakpointManager]

initializeCPU(c, miu) ==
    IF miu = "none" THEN [c |-> c, ret |-> FALSE]
    ELSE [c |-> [c EXCEPT !.miu = miu, !.initialized = TRUE, !.halted = FALSE,
                          !.fault_count = 0, !.last_error = "null"],
          ret |-> TRUE]

setMIU(c, miu) == [c EXCEPT !.miu = miu]

halt(c) == [c EXCEPT !.halted = TRUE]

resume(c) ==
    IF ~c.initialized THEN [c |-> c, ret |-> FALSE]
    ELSE [c |-> [c EXCEPT !.halted = FALSE], ret |-> TRUE]

setRegisterVal(c, idx, value) ==
    IF idx >= 0 /\ idx < 32
    THEN [c |-> [c EXCEPT !.r[idx] = value], ret |-> TRUE]
    ELSE [c |-> c, ret |-> FALSE]

-----------------------------------------------------------------------------
(* Interrupt controller (part_001).  `ic.cpu` tells whether a CPU is       *)
(* connected; an operation that may enter the CPU's exception yields the   *)
(* controller and the CPU.                                                 *)

NewIntC ==
    [cpu |-> FALSE, INT_MASK |-> AllOnes, INT_PRIO |-> {}, INT_STATUS |-> {},
     INT_ACK |-> {}, triggered |-> 0, processed |-> 0, blocked |-> 0]

connectCPU(ic, present) == [ic EXCEPT !.cpu = present]

IC(ic, c) == [ic |-> ic, c |-> c]

\* A trigger that delivers the interrupt whatever the mask says.
triggerIgnoringMask(ic, c, irqNumber) ==
    IF irqNumber.t \in {"undefined", "null"}
    THEN IC([ic EXCEPT !.blocked = @ + 1], c)
    ELSE IF OutOfRange(irqNumber)
    THEN IC([ic EXCEPT !.blocked = @ + 1], c)
    ELSE LET line == ShiftCount(irqNumber)
             ic1 == [ic EXCEPT !.triggered = @ + 1,
                               !.INT_STATUS = @ \cup {line}]
         IN  IF ic1.cpu
             THEN IC([ic1 EXCEPT !.processed = @ + 1], exception(c, irqNumber))
             ELSE IC([ic1 EXCEPT !.blocked = @ + 1], c)

trigger(ic, c, irqNumber) ==
    IF irqNumber.t \in {"undefined", "null"}
    THEN IC([ic EXCEPT !.blocked = @ + 1], c)
    ELSE IF OutOfRange(irqNumber)
    THEN IC([ic EXCEPT !.blocked = @ + 1], c)
    ELSE LET line == ShiftCount(irqNumber)
             ic1 == [ic EXCEPT !.triggered = @ + 1,
                               !.INT_STATUS = @ \cup {line}]
             isEnabled == line \in ic1.INT_MASK
         IN  IF ic1.cpu /\ isEnabled
             THEN IC([ic1 EXCEPT !.processed = @ + 1], exception(c, irqNumber))
             ELSE IC([ic1 EXCEPT !.blocked = @ + 1], c)

intcReadU32(ic, address) ==
    LET offset == Field(address, 0, 16)
    IN  CASE offset = 0 -> ic.INT_MASK
          [] offset = 4 -> ic.INT_PRIO
          [] offset = 8 -> ic.INT_STATUS
          [] OTHER -> {}

\* A register file in which a write to INT_STATUS clears the bits written.
intcWriteU32ClearingOnStatusWrite(ic, address, value) ==
    LET offset == Field(address, 0, 16)
    IN  CASE offset = 0 -> [ic EXCEPT !.INT_MASK = value]
          [] offset = 4 -> [ic EXCEPT !.INT_PRIO = value]
          [] offset \in {8, 12} -> [ic EXCEPT !.INT_STATUS = @ \ value]
          [] OTHER -> ic

intcWriteU32(ic, address, value) ==
    LET offset == Field(address, 0, 16)
    IN  CASE offset = 0 -> [ic EXCEPT !.INT_MASK = value]
          [] offset = 4 -> [ic EXCEPT !.INT_PRIO = value]
          [] offset = 12 -> [ic EXCEPT !.INT_STATUS = @ \ value]
          [] OTHER -> ic

\* A byte write that leaves the other three byte lanes of the word set.
intcWriteU8FillingLanes(ic, offset, value) ==
    LET addr == offset \ {0, 1}
        shift == 8 * Field(offset, 0, 2)
    IN  intcWriteU32(ic, addr,
            (AllOnes \ (shift .. (shift + 7))) \cup Shl(value \cap (0 .. 7), shift))

intcWriteU8(ic, offset, value) ==
    LET addr == offset \ {0, 1}
        shift == 8 * Field(offset, 0, 2)
        word == intcReadU32(ic, addr)
    IN  intcWriteU32(ic, addr,
            (word \ (shift .. (shift + 7))) \cup Shl(value \cap (0 .. 7), shift))

intcWriteU16(ic, offset, value) ==
    LET addr == offset \ {0, 1}
        shift == 8 * (2 * Bit(offset, 1))
        word == intcReadU32(ic, addr)
    IN  intcWriteU32(ic, addr,
            (word \ (shift .. (shift + 15))) \cup Shl(value \cap (0 .. 15), shift))

intcReset(ic) ==
    [ic EXCEPT !.INT_MASK = AllOnes, !.INT_PRIO = {}, !.INT_STATUS = {},
               !.INT_ACK = {}, !.triggered = 0, !.processed = 0, !.blocked = 0]

enableIRQ(ic, irqNumber) ==
    IF irqNumber >= 0 /\ irqNumber < 32
    THEN [ic EXCEPT !.INT_MASK = @ \cup {irqNumber}]
    ELSE ic

disableIRQ(ic, irqNumber) ==
    IF irqNumber >= 0 /\ irqNumber < 32
    THEN [ic EXCEPT !.INT_MASK = @ \ {irqNumber}]
    ELSE ic

clearIRQ(ic, irqNumber) ==
    IF irqNumber >= 0 /\ irqNumber < 32
    THEN [ic EXCEPT !.INT_STATUS = @ \ {irqNumber}]
    ELSE ic

-----------------------------------------------------------------------------
(* Peripherals raising interrupts (CDROM driver, SPU, timer callback,      *)
(* VDU).  Each yields the peripheral, the controller and the CPU.          *)

IRQ_VBLANK == 4
IRQ_TIMER == 5
IRQ_CDROM == 6
IRQ_AUDIO == 10

\* The bytes of a sector in the model (2048 in the drive) and the number of
\* sectors the drive's cache holds.
SectorBytes == 2
cacheSizeLimit == 32

\* new CDROMDriver(): `STATUS` and `INT_FLAG` are words, the other registers
\* and counters numbers; `mediaData` and `sectorBuffer` are byte sequences,
\* `sectorCache` the cached sectors in the order of the Map's keys;
\* `awaiting` holds the results of the _readSector() calls whose callers
\* wait to be resumed, `timers` counts the pending setTimeout callbacks of
\* _readNextSector().  The media are ISO images (isRaw is false).
NewCdrom ==
    [intC |-> FALSE, INT_FLAG |-> {}, STATUS |-> {}, COMMAND |-> 0,
     SECTOR_POS |-> 0, SECTOR_COUNT |-> 1, ERROR |-> 0,
     mediaLoaded |-> FALSE, mediaData |-> <<>>,
     sectorBuffer |-> [i \in 1 .. SectorBytes |-> 0], sectorBufferIndex |-> 0,
     currentLBA |-> 0, remainingSectors |-> 0, sectorCache |-> <<>>,
     stats |-> [sectorsRead |-> 0, bytesRead |-> 0, errors |-> 0,
                cacheHits |-> 0, cacheMisses |-> 0],
     awaiting |-> <<>>, timers |-> 0]
NewSpu == [intC |-> FALSE]
NewVdu == [intC |-> FALSE, vblankPending |-> FALSE]

\* connectInterruptController(intC) of the CDROM driver, the SPU and the VDU.
connectInterruptController(p) == [p EXCEPT !.intC = TRUE]

P(p, x) == [p |-> p, ic |-> x.ic, c |-> x.c]

\* this.intC.trigger(null, 6): the controller's trigger takes one argument.
cdromTriggerInterrupt(cd, ic, c) ==
    LET cd1 == [cd EXCEPT !.INT_FLAG = {0}]
    IN  IF cd1.intC THEN P(cd1, trigger(ic, c, JNull)) ELSE P(cd1, IC(ic, c))

\* this.intC.trigger(cpu, 10): the CPU object arrives as the interrupt number.
triggerAudioInterrupt(sp, ic, c, cpuArg) ==
    IF sp.intC /\ cpuArg THEN P(sp, trigger(ic, c, JObj)) ELSE P(sp, IC(ic, c))

\* The timer's onInterrupt callback installed last (_setupIOHandlers).
timerOnInterrupt(ic, c) == trigger(ic, c, JInt(IRQ_TIMER))

\* VDU.step(cycles) with one scheduler slice, which is longer than a frame.
vduStep(vd) == [vd EXCEPT !.vblankPending = TRUE]

\* VDU.processVBlank(); `success` is the outcome of render().
processVBlank(vd, ic, c, success) ==
    IF ~vd.vblankPending THEN P(vd, IC(ic, c))
    ELSE LET vd1 == [vd EXCEPT !.vblankPending = FALSE]
         IN  IF success /\ vd1.intC
             THEN P(vd1, trigger(ic, c, JInt(IRQ_VBLANK)))
             ELSE P(vd1, IC(ic, c))

-----------------------------------------------------------------------------------------------------------------------------------------------------
(* The engine (main.js): its state, the fatal error it recorded, its clock *)
(* and the frame callbacks requested from the browser.  `frameId` tells    *)
(* whether clock.frameId is null, names a callback still pending ("live")  *)
(* or one that already ran ("fired"); `pending` counts the callbacks the   *)
(* browser still holds.  The debugger and the timer are not loaded.        *)
(* `hw.miu` is the segment router the hardware setup created (`segments`   *)
(* maps the bound segment indices to their regions), `hw.flash` tells that *)
(* a FLASH region exists, `hw.page` what the page loaded (everything, or  *)
(* all but the MMIO region class, or all but the script that adds          *)
(* initializeCPU to the CPU); `peripherals` tells that the peripherals     *)
(* were created and whether the CPU was initialized with the router when   *)
(* they were; `setup` is the outcome of the last hardware setup;           *)
(* `fetching` tells that the boot sequence awaits its firmware fetch and   *)
(* `loading` that a manual firmware load awaits the file's bytes.          *)
CPU_CYCLES_PER_FRAME == 564480
CYCLES_PER_SLICE == 10000

NoMiu == [present |-> FALSE, segments |-> [s \in {} |-> "EMPTY"]]

NewEngine ==
    [state |-> "STOPPED", fatalError |-> "null", frameId |-> "null",
     pending |-> 0, frameCount |-> 0, vblankEnabled |-> FALSE,
     cyclesPerFrame |-> CPU_CYCLES_PER_FRAME,
     cyclesPerSlice |-> CYCLES_PER_SLICE,
     hw |-> [miu |-> NoMiu, flash |-> FALSE, biosLoaded |-> FALSE,
             cdromLoaded |-> FALSE, page |-> "complete"],
     peripherals |-> [created |-> FALSE, cpuReady |-> FALSE],
     setup |-> "never", fetching |-> FALSE, loading |-> FALSE]

requestAnimationFrame(e) == [e EXCEPT !.frameId = "live", !.pending = @ + 1]

\* cancelAnimationFrame(clock.frameId) when it is set, then clock.frameId = null.
cancelFrame(e) ==
    [e EXCEPT !.pending = IF e.frameId = "live" THEN @ - 1 ELSE @,
              !.frameId = "null"]

handleFatalError(e, err) ==
    cancelFrame([e EXCEPT !.state = "ERROR", !.fatalError = err])

pause(e) ==
    IF e.state = "RUNNING" THEN cancelFrame([e EXCEPT !.state = "PAUSED"]) ELSE e

start(e, c) ==
    IF ~e.hw.biosLoaded /\ ~e.hw.cdromLoaded THEN e
    ELSE IF e.state = "RUNNING" \/ ~c.initialized THEN e
    ELSE requestAnimationFrame([e EXCEPT !.state = "RUNNING"])

L(e, c, m, ic, vd, returned) ==
    [e |-> e, c |-> c, m |-> m, ic |-> ic, vd |-> vd, returned |-> returned]

\* The element of a one-element set.
Only(set) == CHOOSE v \in set : TRUE

RECURSIVE cycleLoop(_, _, _, _, _, _, _, _)

\* A loop that treats every step() that returns false as fatal.
afterStepAbortingOnFault(e, x, size, ic, vd, cyclesToRun, sliceCycles) ==
    IF ~x.ret /\ x.c.halted THEN L(pause(e), x.c, x.m, ic, vd, TRUE)
    ELSE IF ~x.ret
    THEN L(handleFatalError(e, "Excesso de faltas de CPU"),
           x.c, x.m, ic, vd, TRUE)
    ELSE IF sliceCycles - 4 <= 0
    THEN cycleLoop(e, x.c, x.m, size, ic, vduStep(vd), cyclesToRun - 4,
                   e.cyclesPerSlice)
    ELSE cycleLoop(e, x.c, x.m, size, ic, vd, cyclesToRun - 4,
                   sliceCycles - 4)

\* The rest of an iteration of the cycle loop after step() returned x, and
\* the iterations after it.
afterStep(e, x, size, ic, vd, cyclesToRun, sliceCycles) ==
    IF ~x.ret /\ x.c.halted THEN L(pause(e), x.c, x.m, ic, vd, TRUE)
    ELSE IF ~x.ret /\ x.c.fault_count > FaultLimit
    THEN L(handleFatalError(e, "Excesso de faltas de CPU"),
           x.c, x.m, ic, vd, TRUE)
    ELSE IF ~x.ret /\ x.c.breakpointManager.attached
                /\ x.c.breakpointManager.paused
    THEN L(pause(e), x.c, x.m, ic, vd, TRUE)
    ELSE IF sliceCycles - 4 <= 0
    THEN cycleLoop(e, x.c, x.m, size, ic, vduStep(vd), cyclesToRun - 4,
                   e.cyclesPerSlice)
    ELSE cycleLoop(e, x.c, x.m, size, ic, vd, cyclesToRun - 4,
                   sliceCycles - 4)

\* The cycle loop of runLoop(): one step() per iteration, the peripherals
\* once per slice (a slice is not shorter than the VDU's own frame).
\* `returned` tells that runLoop() returned from inside the loop.
cycleLoop(e, c, m, size, ic, vd, cyclesToRun, sliceCycles) ==
    IF cyclesToRun <= 0 THEN L(e, c, m, ic, vd, FALSE)
    ELSE IF ~c.initialized
    THEN L(handleFatalError(e, "CPU não inicializada no runLoop"),
           c, m, ic, vd, TRUE)
    ELSE IF ~HasMiu(c)
    THEN L(handleFatalError(e, "MIU não conectado ao CPU"), c, m, ic, vd, TRUE)
    ELSE IF pcBeyondSize(c, size)
    THEN L(handleFatalError(e, "PC fora de range de memória"),
           c, m, ic, vd, TRUE)
    ELSE Only({afterStep(e, x, size, ic, vd, cyclesToRun, sliceCycles) :
                 x \in {step(c, m, size)}})

\* The end of a frame: VBlank is enabled once cr[3] is set and triggered
\* when enabled, the VDU processes its VBlank, the next frame is requested.
frameEnd(l, success) ==
    LET enable == l.c.cr[3] # {} /\ ~l.e.vblankEnabled
        ic1 == IF enable THEN enableIRQ(l.ic, IRQ_VBLANK) ELSE l.ic
        e1 == [l.e EXCEPT !.frameCount = @ + 1,
                          !.vblankEnabled = @ \/ enable]
        x == IF e1.vblankEnabled THEN trigger(ic1, l.c, JInt(IRQ_VBLANK))
             ELSE IC(ic1, l.c)
        y == processVBlank(l.vd, x.ic, x.c, success)
    IN  L(requestAnimationFrame(e1), y.c, l.m, y.ic, y.p, FALSE)

\* runLoop(timestamp), the second definition in the class; `success` is
\* the outcome of the VDU's render().
runLoop(e, c, m, size, ic, vd, success) ==
    IF e.state # "RUNNING" THEN L(e, c, m, ic, vd, TRUE)
    ELSE Only({IF l.returned THEN l ELSE frameEnd(l, success) :
                 l \in {cycleLoop(e, c, m, size, ic, vd,
                                  e.cyclesPerFrame, e.cyclesPerSlice)}})

-----------------------------------------------------------------------------
(* The state machine.  `cpu`, `mem`, `miu_size`, `intc`, `cdrom`, `spu`    *)
(* and `vdu` are the program's objects; `lastOp` (the last operation and   *)
(* its argument), `ret` (what it returned), `g_fails` (the number of       *)
(* consecutive step() calls that returned false) and `g_entry` (pc and     *)
(* flags at the last direct call of exception(), its cause, and whether    *)
(* rte() was called right after it) record the history the properties      *)
(* speak about.                                                            *)

BOOT_ADDRESS_BIOS == Hex(40448, 0)

Op(name, arg) == [op |-> name, arg |-> arg]

B(b) == IF b THEN "true" ELSE "false"

Snapshot(c) == [pc |-> c.pc, N |-> c.N, Z |-> c.Z, C |-> c.C, V |-> c.V, T |-> c.T]

EmptyMem == [x \in {} |-> {}]

\* Bounds: instructions executed, consecutive failed steps followed, and the
\* fault count up to which the host still calls the life-cycle operations
\* (beyond it only step() is called, as in a run loop left alone).
MaxInstr == 1
MaxFails == 102
MaxEarly == 1

HostActs == cpu.fault_count <= MaxEarly

MiuKinds == {"none", "miu", "bare"}

\* Memory sizes the interface may report: the whole address space, or
\* four bytes.
MiuSizes == {AllOnes, {0, 1}}

\* Instruction encoders for the programs placed in memory.
EncSp(rD, rA, rB, func6, CU) ==
    Shl(W(rD), 22) \cup Shl(W(rA), 17) \cup Shl(W(rB), 12) \cup Shl(W(func6), 1)
        \cup W(CU)

EncJ(disp24, LK) == Shl(W(2), 27) \cup Shl(disp24, 1) \cup W(LK)

\* add r1, r1, r2 (flags updated) at the boot vector, then a jump back to it.
BootImage ==
    writeU32(writeU32(EmptyMem, BOOT_ADDRESS_BIOS, EncSp(1, 1, 2, 8, 1)),
             Add32(BOOT_ADDRESS_BIOS, {2}), EncJ((0 .. 23) \ {0}, 0))

PeripheralsInit ==
    /\ intc = NewIntC
    /\ cdrom = NewCdrom
    /\ spu = NewSpu
    /\ vdu = NewVdu

Peripherals == <<intc, cdrom, spu, vdu>>

HistoryInit ==
    /\ lastOp = Op("new", JUndef)
    /\ ret = "undefined"
    /\ g_fails = 0
    /\ g_entry = [at |-> Snapshot(cpu), cause |-> JUndef, returned |-> FALSE,
                  outer |-> JUndef]
    /\ engine = NewEngine

\* The CPU as constructed, before any memory interface is attached.
Init ==
    /\ cpu = NewCPU("none")
    /\ mem = BootImage
    /\ miu_size \in MiuSizes
    /\ PeripheralsInit
    /\ HistoryInit

InitializeCPU ==
    \E m \in MiuKinds :
        LET x == initializeCPU(cpu, m)
        IN  /\ HostActs
            /\ cpu' = x.c
            /\ ret' = B(x.ret)
            /\ lastOp' = Op("initializeCPU", JUndef)
            /\ g_fails' = 0
            /\ UNCHANGED <<mem, miu_size, Peripherals, g_entry, engine>>

SetMIU ==
    \E m \in MiuKinds :
        /\ HostActs
        /\ cpu' = setMIU(cpu, m)
        /\ ret' = "undefined"
        /\ lastOp' = Op("setMIU", JUndef)
        /\ g_fails' = 0
        /\ UNCHANGED <<mem, miu_size, Peripherals, g_entry, engine>>

SetPC ==
    /\ HostActs
    /\ cpu' = setPC(cpu, BOOT_ADDRESS_BIOS)
    /\ ret' = "undefined"
    /\ lastOp' = Op("setPC", JUndef)
    /\ g_fails' = 0
    /\ UNCHANGED <<mem, miu_size, Peripherals, g_entry, engine>>

\* MaxInstr bounds the instructions executed, not the steps that fail.
Step ==
    /\ cpu.instructions < MaxInstr \/ cpu.halted \/ cpu.miu # "miu"
    /\ g_fails < MaxFails
    /\ LET x == step(cpu, mem, miu_size)
       IN  /\ cpu' = x.c
           /\ mem' = x.m
           /\ ret' = B(x.ret)
           /\ g_fails' = IF x.ret THEN 0 ELSE g_fails + 1
    /\ lastOp' = Op("step", JUndef)
    /\ UNCHANGED <<miu_size, Peripherals, g_entry, engine>>

Halt ==
    /\ HostActs
    /\ cpu' = halt(cpu)
    /\ ret' = "undefined"
    /\ lastOp' = Op("halt", JUndef)
    /\ g_fails' = 0
    /\ UNCHANGED <<mem, miu_size, Peripherals, g_entry, engine>>

Resume ==
    LET x == resume(cpu)
    IN  /\ HostActs
        /\ cpu' = x.c
        /\ ret' = B(x.ret)
        /\ lastOp' = Op("resume", JUndef)
        /\ g_fails' = 0
        /\ UNCHANGED <<mem, miu_size, Peripherals, g_entry, engine>>

Reset ==
    /\ HostActs
    /\ cpu' = reset(cpu)
    /\ ret' = "undefined"
    /\ lastOp' = Op("reset", JUndef)
    /\ g_fails' = 0
    /\ UNCHANGED <<mem, miu_size, Peripherals, g_entry, engine>>

Next ==
    \/ InitializeCPU
    \/ SetMIU
    \/ SetPC
    \/ Step
    \/ Halt
    \/ Resume
    \/ Reset

Spec == Init /\ [][Next]_vars

-----------------------------------------------------------------------------
(* Properties of the life cycle, under Spec.                               *)

\* C1: on a CPU with no memory interface attached, 101 consecutive step()
\* calls leave halted == true.
C1_NoMiuBreakerHalts ==
    (cpu.miu = "none" /\ g_fails >= FaultLimit + 1) => cpu.halted

\* C9: whatever makes the steps fail while a memory interface is attached
\* (an exception thrown during the fetch, a pc out of range), more than 100
\* consecutive failed steps leave the CPU halted.
C9_FailingRunEndsHalted ==
    (HasMiu(cpu) /\ g_fails > FaultLimit) => cpu.halted

\* C10: while halted is true, step() returns false and changes neither the
\* CPU (pc, registers, flags, sr, cr, cycles, instructions, fault_count,
\* halted) nor the memory.
C10_HaltedStepIsNoOp ==
    [][(lastOp'.op = "step" /\ cpu.halted)
           => (cpu' = cpu /\ mem' = mem /\ ret' = "false")]_vars

\* A CPU halted after it executed an instruction, stepped twice since.
C10_Witness ==
    /\ cpu.halted
    /\ lastOp.op = "step"
    /\ g_fails >= 2
    /\ cpu.instructions > 0
    /\ cpu.pc # {}

-----------------------------------------------------------------------------
(* Exception entry and return called directly on a CPU, under SpecExc.     *)
(* The CPU states the calls start from combine a pc, an exception base     *)
(* cr[3] (one near the top of the address space, so that the vector        *)
(* address wraps), control registers with every bit clear or set, and      *)
(* flags written through sr[0] or left by a subtraction that does not pack *)
(* them.                                                                   *)

ExcPcs == {BOOT_ADDRESS_BIOS, AllOnes \ {0, 1}}
ExcVectors == {{}, Hex(40960, 256), Hex(65535, 65520)}
ExcControls == {{}, AllOnes}
FlagWords == {{}, {31, 28, 0}, AllOnes}

\* The first entry takes every cause; the entries after it (nested, or
\* after a return) take these.
NestedCauses == {5}

ExcCPU(pc, base, ctl, f, unpacked) ==
    LET c0 == initializeCPU(NewCPU("none"), "miu").c
        c1 == setPC(c0, pc)
        c2 == setControlRegister(c1, 3, base)
        c3 == setControlRegister(setControlRegister(c2, 2, ctl), 0, ctl)
        c4 == setSystemRegister(c3, 0, f)
        c5 == setRegister(c4, 1, BOOT_ADDRESS_BIOS)
    IN  IF unpacked THEN sub(c5, {}, {}, TRUE).c ELSE c5

InitExc ==
    /\ \E pc \in ExcPcs, base \in ExcVectors, ctl \in ExcControls,
          f \in FlagWords, unpacked \in BOOLEAN :
            cpu = ExcCPU(pc, base, ctl, f, unpacked)
    /\ mem = EmptyMem
    /\ miu_size = AllOnes
    /\ PeripheralsInit
    /\ HistoryInit

ExceptionCall ==
    \E cause \in 0 .. 63 :
        /\ lastOp.op = "new" \/ cause \in NestedCauses
        /\ cpu' = exception(cpu, JInt(cause))
        /\ ret' = "undefined"
        /\ lastOp' = Op("exception", JInt(cause))
        /\ g_entry' = [at |-> Snapshot(cpu), cause |-> JInt(cause),
                       returned |-> FALSE,
                       outer |-> IF lastOp.op = "exception" THEN lastOp.arg
                                 ELSE JUndef]
        /\ UNCHANGED <<mem, miu_size, Peripherals, g_fails, engine>>

RteCall ==
    /\ cpu' = rte(cpu)
    /\ ret' = "undefined"
    /\ lastOp' = Op("rte", JUndef)
    /\ g_entry' = [g_entry EXCEPT !.returned = (lastOp.op = "exception")]
    /\ UNCHANGED <<mem, miu_size, Peripherals, g_fails, engine>>

NextExc ==
    \/ ExceptionCall
    \/ RteCall

SpecExc == InitExc /\ [][NextExc]_vars

FlagsOf(c) == <<c.N, c.Z, c.C, c.V, c.T>>

FlagBits(c) ==
    {b \in {31, 30, 29, 28, 0} :
        \/ b = 31 /\ c.N = 1
        \/ b = 30 /\ c.Z = 1
        \/ b = 29 /\ c.C = 1
        \/ b = 28 /\ c.V = 1
        \/ b = 0 /\ c.T = 1}

\* C6: for every cause in 0..63, exception(cause) stores the packed flags in
\* cr[1], writes the cause into cr[2] bits 23:18 and leaves its other bits,
\* stores the pc in cr[5], clears bit 0 of cr[0], sets pc to
\* (cr[3] + cause*4) mod 2^32, and changes no general register, no flag and
\* no other control register.
C6_ExceptionEntry ==
    [][lastOp'.op = "exception" =>
           LET k == lastOp'.arg.v
           IN  /\ cpu'.cr[1] = FlagBits(cpu)
               /\ cpu'.cr[2] \cap CauseField = {18 + i : i \in W(k)}
               /\ cpu'.cr[2] \ CauseField = cpu.cr[2] \ CauseField
               /\ cpu'.cr[5] = cpu.pc
               /\ cpu'.cr[0] = cpu.cr[0] \ {0}
               /\ cpu'.pc = Add32(cpu.cr[3], W(4 * k))
               /\ cpu'.r = cpu.r
               /\ FlagsOf(cpu') = FlagsOf(cpu)
               /\ \A i \in (0 .. 31) \ {0, 1, 2, 5} : cpu'.cr[i] = cpu.cr[i]]_vars

\* exception(63) entered from a CPU whose cr[2] had bits outside the cause
\* field and whose vector address wrapped around 2^32.
C6_Witness ==
    /\ lastOp = Op("exception", JInt(63))
    /\ cpu.cr[2] = AllOnes
    /\ cpu.cr[3] = Hex(65535, 65520)
    /\ cpu.pc = W(236)
    /\ cpu.cr[5] = BOOT_ADDRESS_BIOS
    /\ cpu.cr[1] = {30, 29}

\* C7: exception(5) immediately followed by rte() restores pc and the five
\* flags N, Z, C, V, T to their values before the exception.
C7_ExceptionRteRoundTrip ==
    [][(lastOp = Op("exception", JInt(5)) /\ lastOp'.op = "rte")
           => Snapshot(cpu') = g_entry.at]_vars

\* rte() right after exception(5), back at the pc and the flags (all set)
\* the exception was entered with.
C7_Witness ==
    /\ lastOp.op = "rte"
    /\ g_entry.returned
    /\ g_entry.cause = JInt(5)
    /\ Snapshot(cpu) = g_entry.at
    /\ FlagsOf(cpu) = <<1, 1, 1, 1, 1>>
    /\ cpu.pc = BOOT_ADDRESS_BIOS

-----------------------------------------------------------------------------
(* The interrupt controller driven directly, under SpecIntc: a CPU with an *)
(* exception base, a controller as constructed (no CPU connected, every    *)
(* line enabled), then connectCPU, mask changes and trigger calls.         *)

\* Calls of trigger() followed.
MaxTrig == 2

\* The lines enableIRQ/disableIRQ are called with, the words written to
\* INT_MASK, and the arguments of trigger(): every line, the two numbers
\* next to the range, null, undefined and an object.
MaskLines == {6, 31}
MaskWrites == {{}, AllOnes}
TriggerArgs == {JInt(i) : i \in -1 .. 32} \cup {JNull, JUndef, JObj}

\* The first trigger() takes every argument, the ones after it a line whose
\* mask bit the model changes.
LaterArgs == {JInt(i) : i \in MaskLines}

Calls(ic) == ic.triggered + ic.blocked

InitIntc ==
    /\ \E base \in ExcVectors \ {{}} :
          cpu = ExcCPU(BOOT_ADDRESS_BIOS, base, {}, {}, FALSE)
    /\ mem = EmptyMem
    /\ miu_size = AllOnes
    /\ PeripheralsInit
    /\ HistoryInit

ConnectCPU ==
    /\ intc' = connectCPU(intc, TRUE)
    /\ ret' = "undefined"
    /\ lastOp' = Op("connectCPU", JUndef)
    /\ UNCHANGED <<cpu, mem, miu_size, cdrom, spu, vdu, g_fails, g_entry, engine>>

Trigger ==
    \E x \in TriggerArgs :
        LET y == trigger(intc, cpu, x)
        IN  /\ Calls(intc) < MaxTrig
            /\ Calls(intc) = 0 \/ x \in LaterArgs
            /\ intc' = y.ic
            /\ cpu' = y.c
            /\ ret' = "undefined"
            /\ lastOp' = Op("trigger", x)
            /\ UNCHANGED <<mem, miu_size, cdrom, spu, vdu, g_fails, g_entry, engine>>

EnableIRQ ==
    \E i \in MaskLines :
        /\ intc' = enableIRQ(intc, i)
        /\ ret' = "undefined"
        /\ lastOp' = Op("enableIRQ", JInt(i))
        /\ UNCHANGED <<cpu, mem, miu_size, cdrom, spu, vdu, g_fails, g_entry, engine>>

DisableIRQ ==
    \E i \in MaskLines :
        /\ intc' = disableIRQ(intc, i)
        /\ ret' = "undefined"
        /\ lastOp' = Op("disableIRQ", JInt(i))
        /\ UNCHANGED <<cpu, mem, miu_size, cdrom, spu, vdu, g_fails, g_entry, engine>>

\* A 32-bit write to the INT_MASK register (offset 0).
WriteMask ==
    \E v \in MaskWrites :
        /\ intc' = intcWriteU32(intc, {}, v)
        /\ ret' = "undefined"
        /\ lastOp' = Op("writeU32", JUndef)
        /\ UNCHANGED <<cpu, mem, miu_size, cdrom, spu, vdu, g_fails, g_entry, engine>>

NextIntc ==
    \/ ConnectCPU
    \/ Trigger
    \/ EnableIRQ
    \/ DisableIRQ
    \/ WriteMask

SpecIntc == InitIntc /\ [][NextIntc]_vars

\* C4: for every irq in 0..31, whatever enableIRQ/disableIRQ calls and
\* INT_MASK writes came before, trigger(irq) sets INT_STATUS bit irq; if
\* MASK bit irq is 1 and a CPU is connected it enters the CPU exception with
\* cause irq (cr[5] = the pc before the trigger, pc = cr[3] + irq*4 on 32
\* bits, cause field = irq) and counts it as processed; otherwise the CPU is
\* unchanged and the blocked counter increases by one.
C4_TriggerDelivery ==
    [][(lastOp'.op = "trigger" /\ lastOp'.arg.t = "int"
            /\ lastOp'.arg.v \in 0 .. 31) =>
           LET irq == lastOp'.arg.v
           IN  /\ irq \in intc'.INT_STATUS
               /\ IF intc.cpu /\ irq \in intc.INT_MASK
                  THEN /\ cpu'.cr[5] = cpu.pc
                       /\ cpu'.pc = Add32(cpu.cr[3], W(4 * irq))
                       /\ cpu'.cr[2] \cap CauseField = {18 + i : i \in W(irq)}
                       /\ intc'.processed = intc.processed + 1
                       /\ intc'.blocked = intc.blocked
                  ELSE /\ cpu' = cpu
                       /\ intc'.blocked = intc.blocked + 1
                       /\ intc'.processed = intc.processed]_vars

\* trigger(6) blocked while line 6 was disabled, then, after enableIRQ(6),
\* trigger(6) again, which entered the exception at cr[3] + 24.
C4_Witness ==
    /\ lastOp = Op("trigger", JInt(6))
    /\ intc.blocked = 1
    /\ intc.processed = 1
    /\ intc.cpu
    /\ 6 \in intc.INT_MASK
    /\ 6 \in intc.INT_STATUS
    /\ cpu.cr[5] = BOOT_ADDRESS_BIOS
    /\ cpu.pc = Add32(cpu.cr[3], W(24))
    /\ cpu.cr[2] \cap CauseField = {19, 20}

-----------------------------------------------------------------------------
(* The peripherals wired as the emulator's setup wires them, under         *)
(* SpecPeriph: the controller connected to the VDU, the CDROM driver and   *)
(* the SPU, line 4 disabled, lines 6 and 10 enabled, the CPU connected to  *)
(* the controller.  `lastOp.arg` is the CPU argument of                    *)
(* triggerAudioInterrupt (an object or null) and, for processVBlank,       *)
(* whether render() succeeded (1 or 0).                                    *)

PeriphLines == {IRQ_VBLANK, IRQ_TIMER, IRQ_CDROM, IRQ_AUDIO}

setupPeripherals(ic) ==
    enableIRQ(enableIRQ(disableIRQ(ic, IRQ_VBLANK), IRQ_CDROM), IRQ_AUDIO)

InitPeriph ==
    /\ \E base \in ExcVectors \ {{}} :
          cpu = ExcCPU(BOOT_ADDRESS_BIOS, base, {}, {}, FALSE)
    /\ mem = EmptyMem
    /\ miu_size = AllOnes
    /\ intc = connectCPU(setupPeripherals(NewIntC), TRUE)
    /\ cdrom = connectInterruptController(NewCdrom)
    /\ spu = connectInterruptController(NewSpu)
    /\ vdu = connectInterruptController(NewVdu)
    /\ HistoryInit

CdromTriggerInterrupt ==
    LET y == cdromTriggerInterrupt(cdrom, intc, cpu)
    IN  /\ Calls(intc) < MaxTrig
        /\ cdrom' = y.p
        /\ intc' = y.ic
        /\ cpu' = y.c
        /\ ret' = "undefined"
        /\ lastOp' = Op("cdrom._triggerInterrupt", JUndef)
        /\ UNCHANGED <<mem, miu_size, spu, vdu, g_fails, g_entry, engine>>

TriggerAudioInterrupt ==
    \E cpuArg \in BOOLEAN :
        LET y == triggerAudioInterrupt(spu, intc, cpu, cpuArg)
        IN  /\ Calls(intc) < MaxTrig
            /\ spu' = y.p
            /\ intc' = y.ic
            /\ cpu' = y.c
            /\ ret' = "undefined"
            /\ lastOp' = Op("spu.triggerAudioInterrupt",
                            IF cpuArg THEN JObj ELSE JNull)
            /\ UNCHANGED <<mem, miu_size, cdrom, vdu, g_fails, g_entry, engine>>

TimerInterrupt ==
    LET y == timerOnInterrupt(intc, cpu)
    IN  /\ Calls(intc) < MaxTrig
        /\ intc' = y.ic
        /\ cpu' = y.c
        /\ ret' = "undefined"
        /\ lastOp' = Op("timer.onInterrupt", JUndef)
        /\ UNCHANGED <<mem, miu_size, cdrom, spu, vdu, g_fails, g_entry, engine>>

VduStep ==
    /\ vdu' = vduStep(vdu)
    /\ ret' = "undefined"
    /\ lastOp' = Op("vdu.step", JUndef)
    /\ UNCHANGED <<cpu, mem, miu_size, intc, cdrom, spu, g_fails, g_entry, engine>>

ProcessVBlank ==
    \E success \in BOOLEAN :
        LET y == processVBlank(vdu, intc, cpu, success)
        IN  /\ Calls(intc) < MaxTrig
            /\ vdu' = y.p
            /\ intc' = y.ic
            /\ cpu' = y.c
            /\ ret' = "undefined"
            /\ lastOp' = Op("vdu.processVBlank", JInt(IF success THEN 1 ELSE 0))
            /\ UNCHANGED <<mem, miu_size, cdrom, spu, g_fails, g_entry, engine>>

EnableLine ==
    \E i \in PeriphLines :
        /\ intc' = enableIRQ(intc, i)
        /\ ret' = "undefined"
        /\ lastOp' = Op("enableIRQ", JInt(i))
        /\ UNCHANGED <<cpu, mem, miu_size, cdrom, spu, vdu, g_fails, g_entry, engine>>

DisableLine ==
    \E i \in PeriphLines :
        /\ intc' = disableIRQ(intc, i)
        /\ ret' = "undefined"
        /\ lastOp' = Op("disableIRQ", JInt(i))
        /\ UNCHANGED <<cpu, mem, miu_size, cdrom, spu, vdu, g_fails, g_entry, engine>>

NextPeriph ==
    \/ CdromTriggerInterrupt
    \/ TriggerAudioInterrupt
    \/ TimerInterrupt
    \/ VduStep
    \/ ProcessVBlank
    \/ EnableLine
    \/ DisableLine

SpecPeriph == InitPeriph /\ [][NextPeriph]_vars

\* The line a peripheral's request is assigned, when the step taken is a
\* peripheral raising one; -1 otherwise.
RequestedLine ==
    CASE lastOp'.op = "cdrom._triggerInterrupt" /\ cdrom.intC -> IRQ_CDROM
      [] lastOp'.op = "spu.triggerAudioInterrupt" /\ spu.intC
            /\ lastOp'.arg = JObj -> IRQ_AUDIO
      [] lastOp'.op = "timer.onInterrupt" -> IRQ_TIMER
      [] lastOp'.op = "vdu.processVBlank" /\ vdu.intC /\ vdu.vblankPending
            /\ lastOp'.arg = JInt(1) -> IRQ_VBLANK
      [] OTHER -> -1

\* C5: a request raised by a peripheral sets the INT_STATUS bit of its
\* assigned line (CD-ROM 6, audio 10, timer 5, VBlank 4) and no other, and
\* when that line is enabled and a CPU is connected the CPU enters the
\* exception with that cause.
C5_PeripheralLines ==
    [][RequestedLine >= 0 =>
           /\ intc'.INT_STATUS = intc.INT_STATUS \cup {RequestedLine}
           /\ (intc.cpu /\ RequestedLine \in intc.INT_MASK) =>
                  /\ cpu'.cr[2] \cap CauseField
                        = {18 + i : i \in W(RequestedLine)}
                  /\ cpu'.cr[5] = cpu.pc
                  /\ cpu'.pc = Add32(cpu.cr[3], W(4 * RequestedLine))]_vars

-----------------------------------------------------------------------------
(* One instruction executed from the boot vector, under SpecISA.  The CPU  *)
(* is initialized with the segment router, pc at the boot vector, an       *)
(* exception base in cr[3], r1 a negative number, r2 the address of a data *)
(* word in DRAM, and flags C and T written through sr[0]; the instruction  *)
(* is drawn from every function code of every form.  The host may call    *)
(* the register setters at any time.                                       *)

Enc(OP, w) == Shl(W(OP), 27) \cup w

EncRix(OP, rD, rA, imm12, func3) ==
    Enc(OP, Shl(W(rD), 22) \cup Shl(W(rA), 17) \cup Shl(W(imm12), 5)
                \cup Shl(W(func3), 2))

EncI(OP, rD, func3, imm16) ==
    Enc(OP, Shl(W(rD), 22) \cup Shl(W(func3), 19) \cup Shl(W(imm16), 1))

EncB(BC, disp8, LK) == Enc(4, Shl(W(BC), 23) \cup Shl(W(disp8), 1) \cup W(LK))

EncMem(OP, rD, rA, imm15) ==
    Enc(OP, Shl(W(rD), 22) \cup Shl(W(rA), 17) \cup Shl(W(imm15), 2))

\* A compressed instruction in the low half of the fetched word; bit 30
\* puts the word's major opcode among the compressed ones.
Enc16(OP, func4, rA, rD) ==
    {30} \cup Shl(W(OP), 13) \cup Shl(W(func4), 9) \cup Shl(W(rA), 5)
         \cup Shl(W(rD), 1)

DataAddress == Hex(40960, 16)
DataWord == Hex(32768, 7)
ExceptionBase == Hex(40960, 256)

InsnSet ==
    {EncSp(rD, 1, 2, func6, CU) : rD \in {0, 1}, func6 \in 0 .. 63, CU \in {0, 1}}
        \cup {EncSp(0, 0, rB, 2, 0) : rB \in 0 .. 15}
        \cup {EncRix(OP, rD, rA, 4, func3) :
                OP \in {3, 7}, rD \in {0, 1}, rA \in {0, 2}, func3 \in 0 .. 7}
        \cup {EncI(OP, 1, func3, imm16) :
                OP \in {1, 5}, func3 \in 0 .. 7, imm16 \in {3, 65535}}
        \cup {EncJ(W(8), LK) : LK \in {0, 1}}
        \cup {EncB(BC, 8, LK) : BC \in {2, 4, 15}, LK \in {0, 1}}
        \cup {EncMem(OP, rD, 2, 4) : OP \in 16 .. 23, rD \in {0, 1}}
        \cup {Enc16(OP, func4, rA, 1) :
                OP \in 0 .. 7, func4 \in 0 .. 15, rA \in {0, 2}}

ISAFlagWords == {{29, 0}}

\* The register setters are called on r0, with a non-zero value.
SetterIndexes == {0}
SetterValue == W(5)

InitISA ==
    /\ \E insn \in InsnSet, f \in ISAFlagWords :
          /\ cpu = setRegister(
                       setRegister(
                           ExcCPU(BOOT_ADDRESS_BIOS, ExceptionBase, {}, f, FALSE),
                           1, DataWord),
                       2, DataAddress)
          /\ mem = writeU32(writeU32(EmptyMem, DataAddress, DataWord),
                            BOOT_ADDRESS_BIOS, insn)
    /\ miu_size = AllOnes
    /\ PeripheralsInit
    /\ HistoryInit

SetRegister ==
    \E idx \in SetterIndexes :
        /\ cpu' = setRegister(cpu, idx, SetterValue)
        /\ ret' = "undefined"
        /\ lastOp' = Op("setRegister", JInt(idx))
        /\ UNCHANGED <<mem, miu_size, Peripherals, g_fails, g_entry, engine>>

SetRegisterVal ==
    \E idx \in SetterIndexes :
        LET x == setRegisterVal(cpu, idx, SetterValue)
        IN  /\ cpu' = x.c
            /\ ret' = B(x.ret)
            /\ lastOp' = Op("setRegisterVal", JInt(idx))
            /\ UNCHANGED <<mem, miu_size, Peripherals, g_fails, g_entry, engine>>

SetSystemRegister ==
    /\ cpu' = setSystemRegister(cpu, 0, {30})
    /\ ret' = "undefined"
    /\ lastOp' = Op("setSystemRegister", JInt(0))
    /\ UNCHANGED <<mem, miu_size, Peripherals, g_fails, g_entry, engine>>

NextISA ==
    \/ Step
    \/ SetRegister
    \/ SetRegisterVal
    \/ SetSystemRegister

SpecISA == InitISA /\ [][NextISA]_vars

\* C2: after any executed instructions and register-setter calls, general
\* register r0 reads 0.
C2_R0AlwaysZero == cpu.r[0] = {}

\* C3: whenever control returns from a CPU operation, sr[0] bits 31, 30, 29,
\* 28 and 0 equal the flags N, Z, C, V, T.
C3_SR0MirrorsFlags == cpu.sr[0] \cap {31, 30, 29, 28, 0} = FlagBits(cpu)

\* The cause of the exception the instruction at pc enters when it is
\* executed (syscall 1, a trap whose condition holds 2, sdbbp 3, c.break 9);
\* -1 when it enters none.
RaisedCause ==
    LET w == readU32(mem, cpu.pc)
        OP == Field(w, 27, 5)
        func6 == Field(w, 1, 6)
    IN  CASE OP = 0 /\ func6 = 1 -> 1
          [] OP = 0 /\ func6 = 2 /\ conditional(cpu, Field(w, 12, 5)) -> 2
          [] OP = 0 /\ func6 = 3 -> 3
          [] OP \in (8 .. 15) \cup (24 .. 31) /\ Field(w, 13, 3) = 0
                /\ Field(w, 9, 4) = 11 -> 9
          [] OTHER -> -1

\* C8: when step() executes an instruction that enters an exception, pc
\* afterwards is exactly cr[3] + cause*4 and cr[5] holds the address of the
\* instruction.
C8_ExceptionInstructionVector ==
    [][(lastOp'.op = "step" /\ ret' = "true" /\ RaisedCause >= 0) =>
           /\ cpu'.pc = Add32(cpu.cr[3], W(4 * RaisedCause))
           /\ cpu'.cr[5] = cpu.pc]_vars

-----------------------------------------------------------------------------
(* Properties of single step() calls in the life cycle, under Spec.        *)

C12_StepCounters ==
    [][lastOp'.op = "step" =>
           /\ ret' = "true" =>
                  /\ cpu'.cycles = cpu.cycles + 1
                  /\ cpu'.instructions = cpu.instructions + 1
                  /\ cpu'.fault_count = 0
           /\ ret' = "false" =>
                  /\ cpu'.cycles = cpu.cycles
                  /\ cpu'.instructions = cpu.instructions
           /\ ret' \in {"true", "false"}
           /\ cpu'.cycles >= cpu.cycles
           /\ cpu'.instructions >= cpu.instructions]_vars

\* An instruction executed by a step() that succeeded after a step() whose
\* fetch had thrown.
C12_Witness ==
    /\ lastOp.op = "step"
    /\ ret = "true"
    /\ cpu.cycles = 1
    /\ cpu.instructions = 1
    /\ cpu.fault_count = 0
    /\ cpu.last_error = "thrown"
    /\ cpu.pc = Add32(BOOT_ADDRESS_BIOS, {2})

\* C13: step() with pc beyond the memory interface's size fetches nothing,
\* returns false and enters the exception with cause 0xFF: cr[5] is the
\* illegal pc, pc is cr[3] + 0xFF*4, cycles and instructions are unchanged,
\* and the cause field of cr[2] holds the cause that selected the vector
\* (pc == cr[3] + 4 * the cause read back from cr[2]).
C13_IllegalFetchException ==
    [][(lastOp'.op = "step" /\ cpu.initialized /\ ~cpu.halted
            /\ pcBeyondSize(cpu, miu_size)) =>
           /\ ret' = "false"
           /\ mem' = mem
           /\ cpu'.cr[5] = cpu.pc
           /\ cpu'.pc = Add32(cpu.cr[3], W(255 * 4))
           /\ cpu'.cycles = cpu.cycles
           /\ cpu'.instructions = cpu.instructions
           /\ cpu'.pc = Add32(cpu.cr[3], W(4 * Field(cpu'.cr[2], 18, 6)))]_vars

-----------------------------------------------------------------------------
(* Pending state and acknowledgement, under SpecAck: the controller with   *)
(* the CPU connected; lines 6 and 31 are triggered, masked, unmasked and   *)
(* cleared, the guest writes the registers, the handler returns.           *)

\* Guest writes followed: INT_ACK and INT_STATUS by word, half-word and
\* byte, INT_PRIO by word.
GuestWrites ==
    {[width |-> 32, offset |-> 12, value |-> {6}],
     [width |-> 32, offset |-> 12, value |-> AllOnes],
     [width |-> 16, offset |-> 12, value |-> {6}],
     [width |-> 8, offset |-> 12, value |-> {6}],
     [width |-> 32, offset |-> 8, value |-> AllOnes],
     [width |-> 16, offset |-> 8, value |-> {6}],
     [width |-> 8, offset |-> 8, value |-> {6}],
     [width |-> 32, offset |-> 4, value |-> AllOnes]}

intcWrite(ic, width, offset, value) ==
    CASE width = 8 -> intcWriteU8(ic, W(offset), value)
      [] width = 16 -> intcWriteU16(ic, W(offset), value)
      [] OTHER -> intcWriteU32(ic, W(offset), value)

InitAck ==
    /\ cpu = ExcCPU(BOOT_ADDRESS_BIOS, ExceptionBase, {}, {}, FALSE)
    /\ mem = EmptyMem
    /\ miu_size = AllOnes
    /\ intc = connectCPU(NewIntC, TRUE)
    /\ cdrom = NewCdrom
    /\ spu = NewSpu
    /\ vdu = NewVdu
    /\ HistoryInit

TriggerLine ==
    \E x \in LaterArgs :
        LET y == trigger(intc, cpu, x)
        IN  /\ Calls(intc) < MaxTrig
            /\ intc' = y.ic
            /\ cpu' = y.c
            /\ ret' = "undefined"
            /\ lastOp' = Op("trigger", x)
            /\ UNCHANGED <<mem, miu_size, cdrom, spu, vdu, g_fails, g_entry,
                           engine>>

GuestWrite ==
    \E w \in GuestWrites :
        /\ intc' = intcWrite(intc, w.width, w.offset, w.value)
        /\ ret' = "undefined"
        /\ lastOp' = Op("write", w)
        /\ UNCHANGED <<cpu, mem, miu_size, cdrom, spu, vdu, g_fails, g_entry,
                       engine>>

ClearIRQ ==
    \E i \in MaskLines :
        /\ intc' = clearIRQ(intc, i)
        /\ ret' = "undefined"
        /\ lastOp' = Op("clearIRQ", JInt(i))
        /\ UNCHANGED <<cpu, mem, miu_size, cdrom, spu, vdu, g_fails, g_entry,
                       engine>>

\* reset() of the controller; the CPU stays connected.
IntcReset ==
    /\ intc' = intcReset(intc)
    /\ ret' = "undefined"
    /\ lastOp' = Op("intc.reset", JUndef)
    /\ UNCHANGED <<cpu, mem, miu_size, cdrom, spu, vdu, g_fails, g_entry, engine>>

NextAck ==
    \/ TriggerLine
    \/ EnableIRQ
    \/ DisableIRQ
    \/ WriteMask
    \/ GuestWrite
    \/ ClearIRQ
    \/ IntcReset
    \/ RteCall

SpecAck == InitAck /\ [][NextAck]_vars

\* The lines a step acknowledges: the bits of an INT_ACK write (on the byte
\* lanes the access covers), the line of clearIRQ, every line for a reset.
Acknowledged ==
    CASE lastOp'.op = "write" /\ lastOp'.arg.offset = 12 -> lastOp'.arg.value
      [] lastOp'.op = "clearIRQ" -> {lastOp'.arg.v}
      [] lastOp'.op = "intc.reset" -> AllOnes
      [] OTHER -> {}

\* C16: a pending bit of INT_STATUS stays set through further triggers,
\* enableIRQ/disableIRQ, guest writes to INT_MASK, INT_PRIO and INT_STATUS,
\* and the CPU's exception entry and return, until an INT_ACK write
\* containing it, clearIRQ of its line, or a reset of the controller.
C16_PendingUntilAcknowledged ==
    [][\A i \in intc.INT_STATUS : i \in intc'.INT_STATUS \/ i \in Acknowledged]_vars

\* Line 6, triggered and delivered, is still pending after the guest wrote
\* all ones to INT_STATUS, with every line masked since and the handler
\* returned.
C16_Witness ==
    /\ lastOp.op = "write"
    /\ lastOp.arg = [width |-> 32, offset |-> 8, value |-> AllOnes]
    /\ 6 \in intc.INT_STATUS
    /\ intc.processed = 1
    /\ intc.INT_MASK = {}
    /\ intc.INT_PRIO = AllOnes
    /\ cpu.pc = BOOT_ADDRESS_BIOS
    /\ cpu.cr[5] = BOOT_ADDRESS_BIOS
    /\ cpu.cr[2] \cap CauseField = {19, 20}

\* C17: a guest write of v to INT_ACK (offset 0xC) by word, half-word or
\* byte clears exactly the INT_STATUS bits set in v and changes neither
\* INT_MASK nor INT_PRIO; a guest write to INT_STATUS (offset 0x8) changes
\* nothing in the controller.
C17_AckClearsExactly ==
    [][lastOp'.op = "write" =>
           /\ lastOp'.arg.offset = 12 =>
                  /\ intc'.INT_STATUS = intc.INT_STATUS \ lastOp'.arg.value
                  /\ intc'.INT_MASK = intc.INT_MASK
                  /\ intc'.INT_PRIO = intc.INT_PRIO
           /\ lastOp'.arg.offset = 8 => intc' = intc]_vars

\* A byte write of 0x40 to INT_ACK cleared line 6 and left line 31 pending.
C17_Witness ==
    /\ lastOp.op = "write"
    /\ lastOp.arg = [width |-> 8, offset |-> 12, value |-> {6}]
    /\ intc.INT_STATUS = {31}
    /\ intc.triggered = 2

-----------------------------------------------------------------------------
(* Arguments of trigger() outside the lines, under SpecIntc.               *)

\* C18: trigger(x) with x not an integer in 0..31 (negative, above 31, null,
\* undefined, or an object passed by a caller of the two-argument form)
\* leaves INT_STATUS, INT_MASK and the CPU unchanged and counts as blocked.
C18_InvalidTriggerIgnored ==
    [][(lastOp'.op = "trigger"
            /\ ~(lastOp'.arg.t = "int" /\ lastOp'.arg.v \in 0 .. 31)) =>
           /\ intc'.INT_STATUS = intc.INT_STATUS
           /\ intc'.INT_MASK = intc.INT_MASK
           /\ cpu' = cpu
           /\ intc'.blocked = intc.blocked + 1
           /\ intc'.triggered = intc.triggered
           /\ intc'.processed = intc.processed]_vars

-----------------------------------------------------------------------------
(* Control flow, under SpecFlow: a CPU initialized with the segment router *)
(* runs a short program from its first instruction.  The programs are one  *)
(* J-Form instruction (every displacement below, with and without link,    *)
(* in FLASH and in DRAM), a compressed instruction followed by a           *)
(* full-width one, and a register loaded with a constant and jumped to.    *)

\* Instructions executed per program.
MaxFlow == 3

FlowPcs == {BOOT_ADDRESS_BIOS, Hex(40448, 16), Hex(40960, 256)}

\* 0xFFFFFF, 0x800000, 0xFFFFF8, 0xFFFFFE, 0x7FFFFF, 0x000008, 0x000001, 0.
FlowDisps ==
    {0 .. 23, {23}, 3 .. 23, 1 .. 23, 0 .. 22, {3}, {0}, {}}

FlowPrograms ==
    {[pc |-> p, mem |-> writeU32(EmptyMem, p, EncJ(d, LK))] :
        p \in FlowPcs, d \in FlowDisps, LK \in {0, 1}}
      \cup {[pc |-> BOOT_ADDRESS_BIOS,
             mem |-> writeU32(EmptyMem, BOOT_ADDRESS_BIOS, Enc16(0, 10, 0, 0))],
            [pc |-> BOOT_ADDRESS_BIOS,
             mem |-> writeU32(
                         writeU32(EmptyMem, BOOT_ADDRESS_BIOS, EncI(1, 1, 6, 3)),
                         Add32(BOOT_ADDRESS_BIOS, {2}), EncSp(0, 1, 15, 4, 0))]}

InitFlow ==
    /\ \E p \in FlowPrograms :
          /\ cpu = setPC(initializeCPU(NewCPU("none"), "miu").c, p.pc)
          /\ mem = p.mem
    /\ miu_size = AllOnes
    /\ PeripheralsInit
    /\ HistoryInit

FlowStep ==
    /\ cpu.instructions < MaxFlow
    /\ LET x == step(cpu, mem, miu_size)
       IN  /\ cpu' = x.c
           /\ mem' = x.m
           /\ ret' = B(x.ret)
           /\ g_fails' = IF x.ret THEN 0 ELSE g_fails + 1
    /\ lastOp' = Op("step", JUndef)
    /\ UNCHANGED <<miu_size, Peripherals, g_entry, engine>>

NextFlow == FlowStep

SpecFlow == InitFlow /\ [][NextFlow]_vars

\* C19: a J-Form instruction executed at pc sets pc to
\* (pc + (signExtend24(disp24) << 1)) mod 2^32, that is pc + 2*disp24, less
\* 2^25 when bit 23 of disp24 is set: such a displacement jumps backward
\* when there is no wraparound; with the link bit set r3 receives the
\* address of the jump plus 4, and no other register changes.
C19_JFormTarget ==
    [][(lastOp'.op = "step" /\ ret' = "true"
            /\ Field(readU32(mem, cpu.pc), 27, 5) = 2) =>
           LET insn == readU32(mem, cpu.pc)
               disp24 == FieldW(insn, 1, 24)
               forward == Add32(cpu.pc, Shl(disp24, 1))
               target == IF 23 \in disp24 THEN Sub32(forward, {25}) ELSE forward
           IN  /\ cpu'.pc = target
               /\ (23 \in disp24 /\ GE(cpu.pc, {25})) => GT(cpu.pc, cpu'.pc)
               /\ cpu'.r = IF 0 \in insn
                           THEN [cpu.r EXCEPT ![3] = Add32(cpu.pc, {2})]
                           ELSE cpu.r]_vars

\* The jump-and-link with disp24 = 0xFFFFFF at 0x9E000010 has executed: pc
\* is 0x9E00000E and r3 is 0x9E000014.
C19_Witness ==
    /\ lastOp.op = "step"
    /\ ret = "true"
    /\ cpu.instructions = 1
    /\ readU32(mem, Hex(40448, 16)) = EncJ(0 .. 23, 1)
    /\ cpu.pc = Hex(40448, 14)
    /\ cpu.r[3] = Hex(40448, 20)

\* A fetched word whose major opcode is not a compressed one.
FullWidth(w) == Field(w, 27, 5) \notin (8 .. 15) \cup (24 .. 31)

\* C20: from an aligned boot pc, every instruction executes at a pc that is
\* 2-byte aligned, and 4-byte aligned when the instruction is full-width,
\* and leaves pc 2-byte aligned.
C20_PcAligned ==
    [][(lastOp'.op = "step" /\ ret' = "true") =>
           /\ 0 \notin cpu.pc
           /\ FullWidth(readU32(mem, cpu.pc)) => 1 \notin cpu.pc
           /\ 0 \notin cpu'.pc]_vars

-----------------------------------------------------------------------------
(* Breakpoints, under SpecBp: a CPU initialized with the segment router    *)
(* runs the boot image (an add at the boot vector, then a jump back to     *)
(* it) while the host sets up the breakpoint manager, adds breakpoints     *)
(* (plain, temporary, conditional) on the two instructions and disables    *)
(* or enables them.                                                        *)

\* Hits counted per breakpoint.
MaxHits == 2

\* The breakpoints added: plain and conditional (predicate false) on the
\* first instruction, plain and temporary on the second.
BpChoices ==
    {[addr |-> BOOT_ADDRESS_BIOS, bp |-> Breakpoint(FALSE, "none")],
     [addr |-> BOOT_ADDRESS_BIOS, bp |-> Breakpoint(FALSE, "false")],
     [addr |-> Add32(BOOT_ADDRESS_BIOS, {2}), bp |-> Breakpoint(FALSE, "none")],
     [addr |-> Add32(BOOT_ADDRESS_BIOS, {2}), bp |-> Breakpoint(TRUE, "none")]}

setupBreakpointSystem(c) ==
    IF c.breakpointManager.attached THEN c
    ELSE [c EXCEPT !.breakpointManager = NewBreakpointManager]

InitBp ==
    /\ cpu = setPC(initializeCPU(NewCPU("none"), "miu").c, BOOT_ADDRESS_BIOS)
    /\ mem = BootImage
    /\ miu_size = AllOnes
    /\ PeripheralsInit
    /\ HistoryInit

SetupBreakpointSystem ==
    /\ cpu' = setupBreakpointSystem(cpu)
    /\ ret' = "undefined"
    /\ lastOp' = Op("setupBreakpointSystem", JUndef)
    /\ UNCHANGED <<mem, miu_size, Peripherals, g_fails, g_entry, engine>>

AddBreakpoint ==
    \E b \in BpChoices :
        /\ cpu.breakpointManager.attached
        /\ cpu' = [cpu EXCEPT !.breakpointManager = addBreakpoint(@, b.addr, b.bp)]
        /\ ret' = "undefined"
        /\ lastOp' = Op("addBreakpoint", JUndef)
        /\ UNCHANGED <<mem, miu_size, Peripherals, g_fails, g_entry, engine>>

SetEnabled ==
    \E enabled \in BOOLEAN :
        /\ cpu.breakpointManager.attached
        /\ cpu' = [cpu EXCEPT !.breakpointManager =
                       setEnabled(@, BOOT_ADDRESS_BIOS, enabled)]
        /\ ret' = "undefined"
        /\ lastOp' = Op("setEnabled", JUndef)
        /\ UNCHANGED <<mem, miu_size, Peripherals, g_fails, g_entry, engine>>

BpStep ==
    /\ cpu.instructions < MaxFlow
    /\ g_fails < MaxHits
    /\ \A a \in DOMAIN cpu.breakpointManager.breakpoints :
          cpu.breakpointManager.breakpoints[a].hitCount < MaxHits
    /\ LET x == step(cpu, mem, miu_size)
       IN  /\ cpu' = x.c
           /\ mem' = x.m
           /\ ret' = B(x.ret)
           /\ g_fails' = IF x.ret THEN 0 ELSE g_fails + 1
    /\ lastOp' = Op("step", JUndef)
    /\ UNCHANGED <<miu_size, Peripherals, g_entry, engine>>

NextBp ==
    \/ SetupBreakpointSystem
    \/ AddBreakpoint
    \/ SetEnabled
    \/ BpStep

SpecBp == InitBp /\ [][NextBp]_vars

\* The breakpoint check at the current pc hits: the manager holds an
\* enabled breakpoint at pc whose condition, if any, is true.
BreakpointHits ==
    /\ cpu.breakpointManager.attached
    /\ cpu.pc \in DOMAIN cpu.breakpointManager.breakpoints
    /\ cpu.breakpointManager.breakpoints[cpu.pc].enabled
    /\ cpu.breakpointManager.breakpoints[cpu.pc].condition \in {"none", "true"}

\* C15: when the breakpoint check at the current pc hits, step() marks the
\* manager paused and returns false before any fetch: pc, the registers,
\* the flags, the memory, cycles and instructions are as before the call.
C15_BreakpointStopsBeforeFetch ==
    [][(lastOp'.op = "step" /\ cpu.initialized /\ ~cpu.halted /\ HasMiu(cpu)
            /\ ~pcBeyondSize(cpu, miu_size) /\ BreakpointHits) =>
           /\ ret' = "false"
           /\ cpu'.breakpointManager.paused
           /\ cpu'.pc = cpu.pc
           /\ cpu'.r = cpu.r
           /\ cpu'.sr = cpu.sr
           /\ FlagsOf(cpu') = FlagsOf(cpu)
           /\ mem' = mem
           /\ cpu'.cycles = cpu.cycles
           /\ cpu'.instructions = cpu.instructions]_vars

\* After the add at the boot vector executed, step() stopped on the
\* temporary breakpoint on the jump that follows it.
C15_Witness ==
    /\ lastOp.op = "step"
    /\ ret = "false"
    /\ cpu.breakpointManager.paused
    /\ cpu.breakpointManager.lastBreakpoint = Add32(BOOT_ADDRESS_BIOS, {2})
    /\ Add32(BOOT_ADDRESS_BIOS, {2}) \notin DOMAIN cpu.breakpointManager.breakpoints
    /\ cpu.pc = Add32(BOOT_ADDRESS_BIOS, {2})
    /\ cpu.instructions = 1
    /\ cpu.cycles = 1

-----------------------------------------------------------------------------
(* The hardware setup (main.js setupHardware).  The segment router is the  *)
(* one the specification describes: constructed with no segment bound,     *)
(* setRegion binds or rebinds one segment.                                 *)

SEGMENT_IO == 8
CDROM_BASE == Hex(2304, 0)

Segments == 0 .. 255

NewMiu == [present |-> TRUE, segments |-> [s \in {} |-> "EMPTY"]]

setRegion(miu, seg, region) ==
    IF seg \notin Segments THEN miu
    ELSE [miu EXCEPT !.segments =
             [s \in DOMAIN miu.segments \cup {seg} |->
                 IF s = seg THEN region ELSE miu.segments[s]]]

\* The region an address is routed to.
regionAt(miu, addr) ==
    IF Segment(addr) \in DOMAIN miu.segments THEN miu.segments[Segment(addr)]
    ELSE "UNBOUND"

\* for (seg = 0x00; seg < 0x80; seg++): an empty sink on every segment of
\* the loop that is not DRAM, I/O or FLASH.
mapEmptyRegions(miu) ==
    LET unused == (0 .. 127) \ {SEGMENT_DRAM, SEGMENT_IO, SEGMENT_FLASH}
    IN  [miu EXCEPT !.segments =
            [s \in DOMAIN miu.segments \cup unused |->
                IF s \in unused THEN "EMPTY" ELSE miu.segments[s]]]

H(e, c, m, ic, cd, sp, vd, threw) ==
    [e |-> e, c |-> c, m |-> m, ic |-> ic, cd |-> cd, sp |-> sp, vd |-> vd,
     threw |-> threw]

\* _setupPeripherals() and, after it, the connections setupHardware() and
\* _setupIOHandlers() make: the controller to the SPU, the VDU and the CDROM
\* driver, the CPU to the controller.
setupPeripheralsAndHandlers(e, c, m) ==
    H([e EXCEPT !.peripherals = [created |-> TRUE,
                                 cpuReady |-> c.initialized /\ HasMiu(c)],
                !.setup = "completed"],
      c, m, connectCPU(setupPeripherals(NewIntC), TRUE),
      connectInterruptController(NewCdrom),
      connectInterruptController(NewSpu),
      connectInterruptController(NewVdu), FALSE)

\* A setup that creates the peripherals before it initializes the CPU.
setupHardwarePeripheralsFirst(e, c, ic, cd, sp, vd) ==
    LET c1 == reset(c)
        miu1 == setRegion(NewMiu, SEGMENT_DRAM, "DRAM")
        miu2 == mapEmptyRegions(
                    setRegion(setRegion(miu1, SEGMENT_IO, "IO"),
                              SEGMENT_FLASH, "FLASH"))
        p == setupPeripheralsAndHandlers(
                 [e EXCEPT !.hw.miu = miu2, !.hw.flash = TRUE], c1, EmptyMem)
    IN  IF e.hw.page = "noIORegion"
        THEN H([e EXCEPT !.hw.miu = miu1, !.setup = "aborted"],
               c1, EmptyMem, ic, cd, sp, vd, TRUE)
        ELSE IF e.hw.page = "noInitializeCPU"
        THEN [p EXCEPT !.e.setup = "aborted", !.threw = TRUE]
        ELSE [p EXCEPT !.c = initializeCPU(c1, "miu").c]

\* setupHardware(): `threw` tells that it threw.  The regions are created
\* anew, so the memory they back is empty afterwards.
setupHardware(e, c, ic, cd, sp, vd) ==
    LET c1 == reset(c)
        miu1 == setRegion(NewMiu, SEGMENT_DRAM, "DRAM")
        miu2 == mapEmptyRegions(
                    setRegion(setRegion(miu1, SEGMENT_IO, "IO"),
                              SEGMENT_FLASH, "FLASH"))
        e2 == [e EXCEPT !.hw.miu = miu2, !.hw.flash = TRUE]
        x == initializeCPU(c1, "miu")
    IN  IF e.hw.page = "noIORegion"
        THEN H([e EXCEPT !.hw.miu = miu1, !.setup = "aborted"],
               c1, EmptyMem, ic, cd, sp, vd, TRUE)
        ELSE IF e.hw.page = "noInitializeCPU" \/ ~x.ret
        THEN H([e2 EXCEPT !.setup = "aborted"],
               c1, EmptyMem, ic, cd, sp, vd, TRUE)
        ELSE setupPeripheralsAndHandlers(e2, x.c, EmptyMem)

-----------------------------------------------------------------------------
(* The engine after bootSequence(), under SpecEngine: the hardware set up, *)
(* a BIOS image loaded (the boot image, or zeros, which execute as         *)
(* instructions that fall through), pc at the boot vector, the state       *)
(* RUNNING and the first frame requested.  The browser runs the pending    *)
(* frame callback; the host pauses and starts the engine and sets the      *)
(* exception vector base as the BIOS would.  The clock counts              *)
(* MaxFrameCycles per frame and MaxSliceCycles per slice.                  *)

MaxFrames == 2
MaxFrameCycles == 8
MaxSliceCycles == 4

\* start() is called while the browser holds fewer than MaxPending callbacks.
MaxPending == 2

EngineImages == {BootImage, EmptyMem}

\* The size the memory interface reports: the whole address space, or a
\* memory that ends with the second instruction of the image.
EngineMiuSizes == {AllOnes, Add32(BOOT_ADDRESS_BIOS, {2})}

\* The memory interface answers every fetch, or its fetches throw.
EngineMiuKinds == {"miu", "bare"}

InitEngine ==
    /\ \E k \in EngineMiuKinds :
          cpu = setPC(initializeCPU(NewCPU("none"), k).c, BOOT_ADDRESS_BIOS)
    /\ mem \in EngineImages
    /\ miu_size \in EngineMiuSizes
    /\ intc = connectCPU(setupPeripherals(NewIntC), TRUE)
    /\ cdrom = connectInterruptController(NewCdrom)
    /\ spu = connectInterruptController(NewSpu)
    /\ vdu = connectInterruptController(NewVdu)
    /\ engine = requestAnimationFrame(
                    [NewEngine EXCEPT
                        !.state = "RUNNING",
                        !.cyclesPerFrame = MaxFrameCycles,
                        !.cyclesPerSlice = MaxSliceCycles,
                        !.hw = [miu |-> setupHardware(
                                            NewEngine, NewCPU("none"), NewIntC,
                                            NewCdrom, NewSpu, NewVdu).e.hw.miu,
                                flash |-> TRUE,
                                biosLoaded |-> TRUE, cdromLoaded |-> FALSE,
                                page |-> "complete"],
                        !.peripherals = [created |-> TRUE, cpuReady |-> TRUE],
                        !.setup = "completed"])
    /\ lastOp = Op("bootSequence", JUndef)
    /\ ret = "undefined"
    /\ g_fails = 0
    /\ g_entry = [at |-> Snapshot(cpu), cause |-> JUndef, returned |-> FALSE,
                  outer |-> JUndef]

\* The browser runs the oldest pending frame callback; clock.frameId names
\* the callback requested last, which is the one that runs only when no
\* other is pending.
RunLoop ==
    \E success \in BOOLEAN :
        /\ engine.pending > 0
        /\ engine.frameCount < MaxFrames
        /\ \E l \in {runLoop([engine EXCEPT
                                  !.pending = @ - 1,
                                  !.frameId = IF @ = "live" /\ engine.pending = 1
                                              THEN "fired" ELSE @],
                              cpu, mem, miu_size, intc, vdu, success)} :
              /\ engine' = l.e
              /\ cpu' = l.c
              /\ mem' = l.m
              /\ intc' = l.ic
              /\ vdu' = l.vd
        /\ ret' = "undefined"
        /\ lastOp' = Op("runLoop", JInt(IF success THEN 1 ELSE 0))
        /\ UNCHANGED <<miu_size, cdrom, spu, g_fails, g_entry>>

Start ==
    /\ engine.pending < MaxPending
    /\ engine' = start(engine, cpu)
    /\ ret' = "undefined"
    /\ lastOp' = Op("start", JUndef)
    /\ UNCHANGED <<cpu, mem, miu_size, Peripherals, g_fails, g_entry>>

Pause ==
    /\ engine' = pause(engine)
    /\ ret' = "undefined"
    /\ lastOp' = Op("pause", JUndef)
    /\ UNCHANGED <<cpu, mem, miu_size, Peripherals, g_fails, g_entry>>

SetVectorBase ==
    /\ cpu.cr[3] = {}
    /\ cpu' = setControlRegister(cpu, 3, ExceptionBase)
    /\ ret' = "undefined"
    /\ lastOp' = Op("setControlRegister", JInt(3))
    /\ UNCHANGED <<mem, miu_size, Peripherals, g_fails, g_entry, engine>>

NextEngine ==
    \/ RunLoop
    \/ Start
    \/ Pause
    \/ SetVectorBase

SpecEngine == InitEngine /\ [][NextEngine]_vars

\* C14: an illegal PC reached while the engine is RUNNING is handled as a
\* CPU exception: a frame callback that runs with the engine RUNNING
\* leaves it out of the ERROR state and records no fatal error.
C14_IllegalPcNeverFatal ==
    [][(lastOp'.op = "runLoop" /\ engine.state = "RUNNING") =>
           /\ engine'.state # "ERROR"
           /\ engine'.fatalError = "null"]_vars

-----------------------------------------------------------------------------
(* Initialization in the life cycle, under Spec.                           *)

\* C21: the CPU becomes initialized only by an initializeCPU() call that
\* returns true and attaches an interface; an initializeCPU() call that
\* returns false changes nothing; and on an initialized CPU reset(), halt(),
\* resume() and step() keep it initialized with the same interface.
C21_InitializedOnlyByInitializeCPU ==
    [][/\ (~cpu.initialized /\ cpu'.initialized) =>
              (lastOp'.op = "initializeCPU" /\ ret' = "true" /\ HasMiu(cpu'))
       /\ (lastOp'.op = "initializeCPU" /\ ret' = "false") => cpu' = cpu
       /\ (lastOp'.op = "initializeCPU" /\ ret' = "true") =>
              (cpu'.initialized /\ HasMiu(cpu'))
       /\ (cpu.initialized
              /\ lastOp'.op \in {"reset", "halt", "resume", "step"}) =>
              (cpu'.initialized /\ cpu'.miu = cpu.miu)]_vars

\* An initialized CPU was reset: it is still initialized and still holds
\* its interface.
C21_Witness ==
    /\ lastOp.op = "reset"
    /\ cpu.initialized
    /\ cpu.miu = "miu"
    /\ cpu.pc = {}
    /\ cpu.instructions = 0
    /\ cpu.last_error = "null"

-----------------------------------------------------------------------------
(* Nested exception entries, under SpecExc.  `g_entry.outer` is the cause  *)
(* of the exception entered right before the last one, when there was one. *)

\* C28: an exception entered right after another one overwrites the saved
\* level: cr[5] holds the handler address of the first exception and cr[1]
\* the flags at the second entry, and the rte() that follows returns to that
\* handler address (cr[3] + a*4) with the flags of the second entry.
C28_NestedExceptionOverwrites ==
    [][/\ (lastOp.op = "exception" /\ lastOp'.op = "exception") =>
              /\ cpu.pc = Add32(cpu.cr[3], W(4 * lastOp.arg.v))
              /\ cpu'.cr[5] = cpu.pc
              /\ cpu'.cr[1] = FlagBits(cpu)
       /\ (lastOp.op = "exception" /\ g_entry.outer.t = "int"
              /\ lastOp'.op = "rte") =>
              /\ cpu'.pc = Add32(cpu.cr[3], W(4 * g_entry.outer.v))
              /\ Snapshot(cpu') = g_entry.at
              /\ cpu'.cr[5] = cpu.cr[5]
              /\ cpu'.cr[1] = cpu.cr[1]]_vars

\* exception(63), exception(5), rte(): back in the handler of cause 63, not
\* at the boot vector the first exception was entered from.
C28_Witness ==
    /\ lastOp.op = "rte"
    /\ g_entry.outer = JInt(63)
    /\ g_entry.cause = JInt(5)
    /\ g_entry.returned
    /\ cpu.cr[3] = Hex(40960, 256)
    /\ cpu.pc = Hex(40960, 508)
    /\ cpu.cr[5] = Hex(40960, 508)
    /\ FlagsOf(cpu) = <<1, 1, 1, 1, 1>>

-----------------------------------------------------------------------------
(* Packing and unpacking the flags, under SpecFlags: a CPU holding any of  *)
(* the 32 combinations of N, Z, C, V, T and an sr[0] that need not agree   *)
(* with them; packSR0(), unpackSR0() and writes of sr[0].  `g_entry.at`    *)
(* holds the flags at the last packSR0() and `g_entry.returned` tells that *)
(* unpackSR0() was called right after it.                                  *)

FlagCombinations == [{"N", "Z", "C", "V", "T"} -> {0, 1}]

InitFlags ==
    /\ \E f \in FlagCombinations, w \in FlagWords :
          cpu = [setSystemRegister(initializeCPU(NewCPU("none"), "miu").c, 0, w)
                    EXCEPT !.N = f["N"], !.Z = f["Z"], !.C = f["C"],
                           !.V = f["V"], !.T = f["T"]]
    /\ mem = EmptyMem
    /\ miu_size = AllOnes
    /\ PeripheralsInit
    /\ HistoryInit

PackSR0 ==
    /\ cpu' = packSR0(cpu)
    /\ ret' = "undefined"
    /\ lastOp' = Op("packSR0", JUndef)
    /\ g_entry' = [g_entry EXCEPT !.at = Snapshot(cpu), !.returned = FALSE]
    /\ UNCHANGED <<mem, miu_size, Peripherals, g_fails, engine>>

UnpackSR0 ==
    /\ cpu' = unpackSR0(cpu)
    /\ ret' = "undefined"
    /\ lastOp' = Op("unpackSR0", JUndef)
    /\ g_entry' = [g_entry EXCEPT !.returned = (lastOp.op = "packSR0")]
    /\ UNCHANGED <<mem, miu_size, Peripherals, g_fails, engine>>

SetFlagsWord ==
    \E w \in FlagWords :
        /\ cpu' = setSystemRegister(cpu, 0, w)
        /\ ret' = "undefined"
        /\ lastOp' = Op("setSystemRegister", JInt(0))
        /\ UNCHANGED <<mem, miu_size, Peripherals, g_fails, g_entry, engine>>

NextFlags ==
    \/ PackSR0
    \/ UnpackSR0
    \/ SetFlagsWord

SpecFlags == InitFlags /\ [][NextFlags]_vars

\* C29: for each of the 32 combinations of N, Z, C, V, T, packSR0()
\* followed by unpackSR0() leaves the five flags as they were before the
\* packing.
C29_PackUnpackRoundTrip ==
    [][(lastOp.op = "packSR0" /\ lastOp'.op = "unpackSR0") =>
           /\ Snapshot(cpu') = g_entry.at
           /\ cpu'.sr[0] = FlagBits(cpu')]_vars

\* N, C and T set, Z and V clear, packed over an sr[0] that had every bit
\* set and unpacked again.
C29_Witness ==
    /\ lastOp.op = "unpackSR0"
    /\ g_entry.returned
    /\ FlagsOf(cpu) = <<1, 0, 1, 0, 1>>
    /\ g_entry.at.V = 0
    /\ cpu.sr[0] = {31, 29, 0}

-----------------------------------------------------------------------------
(* Division, under SpecDiv: a signed or unsigned divide of r1 by r2 at the *)
(* boot vector, then one of r1 by r3, where r3 may be zero.                *)

Dividends == {W(7), Sub32({}, W(7)), {31}, AllOnes}
Divisors == {W(2), AllOnes}
LaterDivisors == {{}, W(3)}
DivideFuncs == {34, 35}

InitDiv ==
    /\ \E a \in Dividends, b \in Divisors, z \in LaterDivisors,
          f \in DivideFuncs, g \in DivideFuncs :
          /\ cpu = setRegister(
                       setRegister(
                           setRegister(
                               ExcCPU(BOOT_ADDRESS_BIOS, ExceptionBase, {}, {},
                                      FALSE),
                               1, a),
                           2, b),
                       3, z)
          /\ mem = writeU32(writeU32(EmptyMem, BOOT_ADDRESS_BIOS,
                                     EncSp(0, 1, 2, f, 0)),
                            Add32(BOOT_ADDRESS_BIOS, {2}), EncSp(0, 1, 3, g, 0))
    /\ miu_size = AllOnes
    /\ PeripheralsInit
    /\ HistoryInit

NextDiv == FlowStep

SpecDiv == InitDiv /\ [][NextDiv]_vars

\* The instruction at pc is a divide whose divisor register holds zero.
DividesByZero ==
    LET insn == readU32(mem, cpu.pc)
    IN  /\ Field(insn, 27, 5) = 0
        /\ Field(insn, 1, 6) \in DivideFuncs
        /\ cpu.r[Field(insn, 12, 5)] = {}

\* C30: a signed or unsigned divide whose divisor is zero leaves CEL and CEH
\* unchanged and raises no exception; the step() that executes it returns
\* true, advances pc by 4 and counts no fault.
C30_DivideByZeroIsNoOp ==
    [][(lastOp'.op = "step" /\ DividesByZero) =>
           /\ ret' = "true"
           /\ cpu'.CEL = cpu.CEL
           /\ cpu'.CEH = cpu.CEH
           /\ cpu'.pc = Add32(cpu.pc, W(4))
           /\ cpu'.cr = cpu.cr
           /\ cpu'.r = cpu.r
           /\ cpu'.fault_count = 0
           /\ ~cpu'.halted
           /\ cpu'.instructions = cpu.instructions + 1]_vars

\* -7 divided by 2 (signed) left quotient -3 and remainder -1; the divide
\* by the zero in r3 that followed kept them.
C30_Witness ==
    /\ lastOp.op = "step"
    /\ ret = "true"
    /\ cpu.instructions = 2
    /\ cpu.pc = Add32(BOOT_ADDRESS_BIOS, W(8))
    /\ cpu.r[3] = {}
    /\ cpu.CEL = Sub32({}, W(3))
    /\ cpu.CEH = AllOnes
    /\ Field(readU32(mem, Add32(BOOT_ADDRESS_BIOS, {2})), 1, 6) \in DivideFuncs

-----------------------------------------------------------------------------
(* Steps that fail inside a frame, under SpecEngine.                       *)

\* step() on the CPU as the frame finds it returns false for a transient
\* fault: the CPU is not halted, the fault count is within the limit and
\* no breakpoint paused it.
TransientFault ==
    /\ cpu.initialized
    /\ HasMiu(cpu)
    /\ ~pcBeyondSize(cpu, miu_size)
    /\ \E x \in {step(cpu, mem, miu_size)} :
          /\ ~x.ret
          /\ ~x.c.halted
          /\ x.c.fault_count <= FaultLimit
          /\ ~(x.c.breakpointManager.attached /\ x.c.breakpointManager.paused)

\* C27: when step() returns false for a transient fault, the frame callback
\* keeps the engine RUNNING with no fatal error, completes the frame and
\* requests the next one.
C27_TransientFaultKeepsRunning ==
    [][(lastOp'.op = "runLoop" /\ engine.state = "RUNNING" /\ TransientFault) =>
           /\ engine'.state = "RUNNING"
           /\ engine'.fatalError = engine.fatalError
           /\ engine'.frameCount = engine.frameCount + 1
           /\ engine'.frameId = "live"
           /\ engine'.pending = engine.pending
           /\ ~cpu'.halted]_vars

\* Two frames of fetches that threw: the engine is RUNNING, the next frame
\* is requested, no instruction was executed.
C27_Witness ==
    /\ lastOp.op = "runLoop"
    /\ engine.state = "RUNNING"
    /\ engine.frameCount = 2
    /\ engine.pending = 1
    /\ engine.fatalError = "null"
    /\ cpu.last_error = "thrown"
    /\ cpu.fault_count = 1
    /\ cpu.instructions = 0

-----------------------------------------------------------------------------
(* The engine from its construction, under SpecBoot: the page creates the  *)
(* engine and calls bootSequence(), which sets the hardware up and awaits  *)
(* the firmware fetch; while it waits, and afterwards, the host loads      *)
(* firmware files (a load awaits the file's bytes; no media is loaded),    *)
(* starts, pauses, steps and resets the engine, and the browser runs the   *)
(* pending frame callbacks.  step() and runCycles() are called while the   *)
(* CPU has executed fewer than MaxBootInstr instructions since its last    *)
(* reset.                                                                  *)

MaxBootInstr == 2
MaxRunCycles == 2
FirmwareBytes == 8

Pages == {"complete", "noIORegion", "noInitializeCPU"}

\* The firmware files: images of FirmwareBytes bytes.
FirmwareFiles == {BootImage}

\* The addresses of the first FirmwareBytes bytes of FLASH.
FirmwareRange == {Add32(BOOT_ADDRESS_BIOS, W(k)) : k \in 0 .. (FirmwareBytes - 1)}

\* hw.flash.load(data, 0): the bytes of the file replace the first bytes of
\* FLASH.
flashLoad(m, data) ==
    [a \in (DOMAIN m \ FirmwareRange) \cup DOMAIN data |->
        IF a \in DOMAIN data THEN data[a] ELSE m[a]]

\* FLASH holds the file at offset 0.
flashHolds(m, data) ==
    \A a \in FirmwareRange : readByte(m, a) = readByte(data, a)

RECURSIVE runCyclesLoop(_, _, _, _)

\* The loop of runCycles(n): step() until one returns false.
runCyclesLoop(c, m, size, n) ==
    IF n = 0 THEN S(c, m, TRUE)
    ELSE Only({IF x.ret THEN runCyclesLoop(x.c, x.m, size, n - 1) ELSE x :
                 x \in {step(c, m, size)}})

InitBoot ==
    /\ cpu = NewCPU("none")
    /\ mem = EmptyMem
    /\ miu_size = AllOnes
    /\ PeripheralsInit
    /\ \E page \in Pages :
          engine = [NewEngine EXCEPT !.cyclesPerFrame = MaxFrameCycles,
                                     !.cyclesPerSlice = MaxSliceCycles,
                                     !.hw.page = page]
    /\ lastOp = Op("new", JUndef)
    /\ ret = "undefined"
    /\ g_fails = 0
    /\ g_entry = [at |-> Snapshot(cpu), cause |-> JUndef, returned |-> FALSE,
                  outer |-> JUndef]

\* bootSequence() up to its await of the firmware fetch, or to its catch.
BootSequence ==
    /\ engine.setup = "never"
    /\ \E x \in {setupHardware(engine, cpu, intc, cdrom, spu, vdu)} :
          /\ engine' = IF x.threw
                       THEN handleFatalError([x.e EXCEPT !.state = "ERROR"],
                                             "setupHardware")
                       ELSE [x.e EXCEPT !.fetching = TRUE]
          /\ cpu' = x.c
          /\ mem' = x.m
          /\ intc' = x.ic
          /\ cdrom' = x.cd
          /\ spu' = x.sp
          /\ vdu' = x.vd
    /\ ret' = "undefined"
    /\ lastOp' = Op("bootSequence", JUndef)
    /\ UNCHANGED <<miu_size, g_fails, g_entry>>

\* The firmware fetch settles (`ok`: the file arrived) and bootSequence()
\* runs to its end.
BootFetched ==
    \E ok \in BOOLEAN, data \in FirmwareFiles :
        LET loaded == ok /\ engine.hw.flash
            e1 == [engine EXCEPT !.fetching = FALSE,
                                 !.hw.biosLoaded = @ \/ loaded]
        IN  /\ engine.fetching
            /\ mem' = IF loaded THEN flashLoad(mem, data) ELSE mem
            /\ cpu' = IF e1.hw.biosLoaded THEN setPC(cpu, BOOT_ADDRESS_BIOS)
                      ELSE cpu
            /\ engine' = IF e1.hw.biosLoaded
                         THEN requestAnimationFrame(
                                  [e1 EXCEPT !.state = "RUNNING"])
                         ELSE handleFatalError([e1 EXCEPT !.state = "ERROR"],
                                               "BIOS não foi carregada!")
            /\ ret' = "undefined"
            /\ lastOp' = Op("bootFetched", JInt(IF loaded THEN 1 ELSE 0))
            /\ UNCHANGED <<miu_size, Peripherals, g_fails, g_entry>>

\* loadROM(file) of a firmware file, up to the await of the file's bytes
\* in _loadBIOS().
LoadROM ==
    /\ engine.setup # "never"
    /\ ~engine.loading
    /\ engine' = [pause(engine) EXCEPT !.state = "LOADING", !.loading = TRUE]
    /\ ret' = "undefined"
    /\ lastOp' = Op("loadROM", JUndef)
    /\ UNCHANGED <<cpu, mem, miu_size, Peripherals, g_fails, g_entry>>

\* The awaited bytes arrive (`ok`: they could be read and fit in FLASH) and
\* loadROM() runs to its end.
LoadDone ==
    \E ok \in BOOLEAN, data \in FirmwareFiles :
        LET good == ok /\ engine.hw.flash
            e1 == [engine EXCEPT !.loading = FALSE]
        IN  /\ engine.loading
            /\ mem' = IF good THEN flashLoad(mem, data) ELSE mem
            /\ engine' =
                  IF good
                  THEN [e1 EXCEPT !.hw.biosLoaded = TRUE, !.state = "PAUSED"]
                  ELSE handleFatalError([e1 EXCEPT !.state = "ERROR"],
                                        "BIOS load failed")
            /\ ret' = B(good)
            /\ lastOp' = Op("loadDone", JInt(IF good THEN 1 ELSE 0))
            /\ UNCHANGED <<cpu, miu_size, Peripherals, g_fails, g_entry>>

\* The engine's step().
EngineStep ==
    /\ engine.setup # "never"
    /\ cpu.instructions < MaxBootInstr
    /\ IF ~engine.hw.biosLoaded /\ ~engine.hw.cdromLoaded
       THEN UNCHANGED <<engine, cpu, mem>>
       ELSE IF ~cpu.initialized \/ ~HasMiu(cpu)
       THEN engine' = pause(engine) /\ UNCHANGED <<cpu, mem>>
       ELSE \E x \in {step(cpu, mem, miu_size)} :
               /\ engine' = pause(engine)
               /\ cpu' = x.c
               /\ mem' = x.m
    /\ ret' = "undefined"
    /\ lastOp' = Op("step", JUndef)
    /\ UNCHANGED <<miu_size, Peripherals, g_fails, g_entry>>

RunCycles ==
    \E n \in 1 .. MaxRunCycles :
        /\ engine.setup # "never"
        /\ cpu.instructions < MaxBootInstr
        /\ IF ~engine.hw.biosLoaded \/ ~cpu.initialized
           THEN UNCHANGED <<engine, cpu, mem>>
           ELSE \E x \in {runCyclesLoop(cpu, mem, miu_size, n)} :
                   /\ engine' = pause(engine)
                   /\ cpu' = x.c
                   /\ mem' = x.m
        /\ ret' = "undefined"
        /\ lastOp' = Op("runCycles", JInt(n))
        /\ UNCHANGED <<miu_size, Peripherals, g_fails, g_entry>>

\* The engine's reset().
EngineReset ==
    /\ engine.setup # "never"
    /\ IF ~engine.hw.biosLoaded /\ ~engine.hw.flash
       THEN engine' = pause(engine)
            /\ UNCHANGED <<cpu, mem, Peripherals>>
       ELSE \E x \in {setupHardware(pause(engine), cpu, intc, cdrom, spu, vdu)} :
               /\ engine' = IF x.threw
                            THEN handleFatalError(x.e, "setupHardware")
                            ELSE x.e
               /\ cpu' = IF x.threw THEN x.c
                         ELSE [x.c EXCEPT !.pc = BOOT_ADDRESS_BIOS]
               /\ mem' = x.m
               /\ intc' = x.ic
               /\ cdrom' = x.cd
               /\ spu' = x.sp
               /\ vdu' = x.vd
    /\ ret' = "undefined"
    /\ lastOp' = Op("reset", JUndef)
    /\ UNCHANGED <<miu_size, g_fails, g_entry>>

BootStart ==
    /\ engine.setup # "never"
    /\ Start

BootPause ==
    /\ engine.setup # "never"
    /\ Pause

NextBoot ==
    \/ BootSequence
    \/ BootFetched
    \/ LoadROM
    \/ LoadDone
    \/ BootStart
    \/ BootPause
    \/ EngineStep
    \/ RunCycles
    \/ EngineReset
    \/ RunLoop

SpecBoot == InitBoot /\ [][NextBoot]_vars

\* C22: after setupHardware() completed, every one of the 256 segment
\* indices 0x00..0xFF of the router is bound to a region.
C22_EverySegmentBound ==
    engine.setup = "completed" => DOMAIN engine.hw.miu.segments = Segments

\* The register offsets of the CDROM controller: 0x0, 0x4, ... 0x30.
CdromOffsets == {W(4 * k) : k \in 0 .. 12}

\* C23: after setupHardware() completed, segment 0xA0 routes to DRAM, 0x9E
\* to FLASH, 0x08 to the MMIO window, and every address 0x09000000 + offset
\* of a CDROM register routes to the CDROM controller's register file.
C23_DocumentedMemoryMap ==
    engine.setup = "completed" =>
        /\ regionAt(engine.hw.miu, Hex(40960, 0)) = "DRAM"
        /\ regionAt(engine.hw.miu, BOOT_ADDRESS_BIOS) = "FLASH"
        /\ regionAt(engine.hw.miu, Hex(2048, 0)) = "IO"
        /\ \A off \in CdromOffsets :
              regionAt(engine.hw.miu, Add32(CDROM_BASE, off)) = "CDROM"

\* C24: a hardware setup, at boot or on a reset() that runs one (a
\* firmware is loaded or a FLASH region exists), that completes created and
\* connected the peripherals with the CPU already initialized with the
\* router; one that aborts ends in the ERROR state with no peripheral
\* created or connected.
C24_CpuInitializedBeforePeripherals ==
    [][(\/ lastOp'.op = "bootSequence"
        \/ lastOp'.op = "reset" /\ (engine.hw.biosLoaded \/ engine.hw.flash)) =>
           /\ engine'.setup \in {"completed", "aborted"}
           /\ engine'.setup = "completed" =>
                  /\ engine'.peripherals.created
                  /\ engine'.peripherals.cpuReady
                  /\ cpu'.initialized
                  /\ HasMiu(cpu')
           /\ engine'.setup = "aborted" =>
                  /\ engine'.state = "ERROR"
                  /\ ~engine'.peripherals.created
                  /\ intc' = NewIntC
                  /\ cdrom' = NewCdrom
                  /\ spu' = NewSpu
                  /\ vdu' = NewVdu]_vars

\* The engine was reset after it ran a frame: the setup completed again,
\* the peripherals were created with the CPU initialized, pc is at the boot
\* vector.
C24_Witness ==
    /\ lastOp.op = "reset"
    /\ engine.setup = "completed"
    /\ engine.frameCount = 1
    /\ engine.peripherals.created
    /\ engine.peripherals.cpuReady
    /\ cpu.initialized
    /\ cpu.miu = "miu"
    /\ cpu.pc = BOOT_ADDRESS_BIOS
    /\ cpu.instructions = 0
    /\ intc = connectCPU(setupPeripherals(NewIntC), TRUE)
    /\ vdu.intC

\* C25: while a load is in progress and the engine state is LOADING, the
\* run loop, start(), step() and runCycles() execute no CPU instruction.
C25_NoInstructionWhileLoading ==
    [][(engine.state = "LOADING" /\ engine.loading
            /\ lastOp'.op \in {"runLoop", "start", "step", "runCycles"}) =>
           cpu'.instructions = cpu.instructions]_vars

\* C26: when the engine begins to execute (the boot sequence ends in
\* RUNNING, or start() sets RUNNING right after a completed firmware load or
\* a reset()), FLASH holds a firmware file at offset 0 and pc is
\* 0x9E000000.
C26_ExecutionBeginsAtFirmware ==
    [][(/\ engine.state # "RUNNING"
        /\ engine'.state = "RUNNING"
        /\ \/ lastOp'.op = "bootFetched"
           \/ lastOp'.op = "start" /\ lastOp = Op("loadDone", JInt(1))
           \/ lastOp'.op = "start" /\ lastOp.op = "reset") =>
           /\ cpu'.pc = BOOT_ADDRESS_BIOS
           /\ \E data \in FirmwareFiles : flashHolds(mem', data)]_vars

-----------------------------------------------------------------------------
(* The carry of add and sub, under SpecAlu: an initialized CPU on which    *)
(* add(a, b, updateFlags) and sub(a, b, updateFlags) are called with       *)
(* operands around the ends and the middle of the 32-bit range, once,     *)
(* with the carry flag set or clear before the call.                       *)

AluWords ==
    {{}, {0}, {1}, 0 .. 30, {31}, {0, 31}, AllOnes \ {0}, AllOnes}

InitAlu ==
    /\ \E carry \in {0, 1} :
          cpu = [initializeCPU(NewCPU("none"), "miu").c EXCEPT !.C = carry]
    /\ mem = EmptyMem
    /\ miu_size = AllOnes
    /\ PeripheralsInit
    /\ HistoryInit

AluAdd ==
    \E a \in AluWords, b \in AluWords, updateFlags \in BOOLEAN :
        /\ lastOp.op = "new"
        /\ cpu' = add(cpu, a, b, updateFlags).c
        /\ ret' = "number"
        /\ lastOp' = Op("add", [a |-> a, b |-> b, updateFlags |-> updateFlags])
        /\ g_entry' = [g_entry EXCEPT !.at = Snapshot(cpu)]
        /\ UNCHANGED <<mem, miu_size, Peripherals, g_fails, engine>>

AluSub ==
    \E a \in AluWords, b \in AluWords, updateFlags \in BOOLEAN :
        /\ lastOp.op = "new"
        /\ cpu' = sub(cpu, a, b, updateFlags).c
        /\ ret' = "number"
        /\ lastOp' = Op("sub", [a |-> a, b |-> b, updateFlags |-> updateFlags])
        /\ g_entry' = [g_entry EXCEPT !.at = Snapshot(cpu)]
        /\ UNCHANGED <<mem, miu_size, Peripherals, g_fails, engine>>

NextAlu ==
    \/ AluAdd
    \/ AluSub

SpecAlu == InitAlu /\ [][NextAlu]_vars

\* The two 16-bit halves of a word, as numbers.
Hi16(w) == Field(w, 16, 16)
Lo16(w) == Field(w, 0, 16)

\* a >= b as unsigned numbers, compared half by half.
UnsignedGE(a, b) ==
    \/ Hi16(a) > Hi16(b)
    \/ Hi16(a) = Hi16(b) /\ Lo16(a) >= Lo16(b)

\* a + b >= 2^32: the sum of the high halves and of the carry of the low
\* halves reaches 2^16.
SumOverflows(a, b) ==
    Hi16(a) + Hi16(b) + (IF Lo16(a) + Lo16(b) >= 65536 THEN 1 ELSE 0) >= 65536

\* C31: sub(a, b, true) leaves C == 1 if and only if a >= b, and
\* add(a, b, true) leaves C == 1 if and only if a + b does not fit in 32
\* bits.
C31_CarryOfAddAndSub ==
    /\ (lastOp.op = "sub" /\ lastOp.arg.updateFlags) =>
           (cpu.C = 1 <=> UnsignedGE(lastOp.arg.a, lastOp.arg.b))
    /\ (lastOp.op = "add" /\ lastOp.arg.updateFlags) =>
           (cpu.C = 1 <=> SumOverflows(lastOp.arg.a, lastOp.arg.b))

\* add(0xFFFFFFFF, 1, true) was called: the sum wrapped to 0 and C is set.
C31_Witness ==
    /\ lastOp = Op("add", [a |-> AllOnes, b |-> {0}, updateFlags |-> TRUE])
    /\ cpu.C = 1
    /\ cpu.Z = 1
    /\ cpu.N = 0
    /\ cpu.V = 0

-----------------------------------------------------------------------------
(* The step() override against the step() it wraps, under Spec.            *)

\* C32: for every CPU state the step() of main.js returns the value and
\* leaves the CPU state (halted and fault_count included) that the original
\* step() would.
C32_OverrideKeepsOriginal ==
    [][lastOp'.op = "step" =>
           /\ cpu' = OriginalCPUStep(cpu, mem, miu_size).c
           /\ ret' = B(OriginalCPUStep(cpu, mem, miu_size).ret)]_vars

-----------------------------------------------------------------------------
(* The CD-ROM drive (CDROM_v4.0_PARTE2.js): sector reads, the sector       *)
(* cache, the READ, STOP, GET_STATUS and RESET commands and the registers  *)
(* COMMAND, SECTOR_POS, SECTOR_COUNT, STATUS, DATA and INT_FLAG.  SEEK and *)
(* DMA are left out.  An operation yields the drive `p`, the interrupt     *)
(* controller and the CPU after it, and `ret` where it returns a value.    *)

STATUS_READY == {0}
STATUS_READING == {1}
STATUS_ERROR == {4}

CMD_RESET == 128
CMD_GET_STATUS == 1
CMD_READ == 6
CMD_STOP == 8

PR(x, r) == [p |-> x.p, ic |-> x.ic, c |-> x.c, ret |-> r]

\* loadMedia(file) once the file's bytes arrived, for an ISO image.
loadMedia(cd, data) ==
    [cd EXCEPT !.mediaData = data, !.mediaLoaded = TRUE, !.STATUS = STATUS_READY]

setError(cd, ic, c, code) ==
    cdromTriggerInterrupt(
        [cd EXCEPT !.ERROR = code, !.STATUS = @ \cup STATUS_ERROR,
                   !.stats.errors = @ + 1],
        ic, c)

\* The positions of a sector in the cache.
cacheHas(cache, lba) == {i \in 1 .. Len(cache) : cache[i].lba = lba}

\* _addToCache(lba, data): the first key of the Map is deleted when the
\* cache is full; set() appends a new key and keeps the place of an old one.
addToCache(cache, lba, data) ==
    LET c1 == IF Len(cache) >= cacheSizeLimit THEN Tail(cache) ELSE cache
    IN  IF cacheHas(c1, lba) # {}
        THEN [i \in 1 .. Len(c1) |->
                 IF c1[i].lba = lba THEN [lba |-> lba, data |-> data] ELSE c1[i]]
        ELSE Append(c1, [lba |-> lba, data |-> data])

\* _readSector(lba): the function has no await of its own, so it runs to
\* its end when it is called.
readSector(cd, ic, c, lba) ==
    IF ~cd.mediaLoaded THEN PR(setError(cd, ic, c, 1), FALSE)
    ELSE IF cacheHas(cd.sectorCache, lba) # {}
    THEN PR(P([cd EXCEPT
                  !.sectorBuffer =
                      cd.sectorCache[CHOOSE i \in cacheHas(cd.sectorCache, lba) :
                                         TRUE].data,
                  !.stats.cacheHits = @ + 1],
              IC(ic, c)), TRUE)
    ELSE LET cd1 == [cd EXCEPT !.stats.cacheMisses = @ + 1]
             physicalOffset == lba * SectorBytes
             sectorData == SubSeq(cd.mediaData, physicalOffset + 1,
                                  physicalOffset + SectorBytes)
         IN  IF physicalOffset + SectorBytes > Len(cd.mediaData)
             THEN PR(setError(cd1, ic, c, 6), FALSE)
             ELSE PR(P([cd1 EXCEPT
                           !.sectorBuffer = sectorData,
                           !.sectorBufferIndex = 0,
                           !.sectorCache = addToCache(@, lba, sectorData),
                           !.stats.sectorsRead = @ + 1,
                           !.stats.bytesRead = @ + SectorBytes],
                       IC(ic, c)), TRUE)

\* _readNextSector() up to its await of _readSector().
readNextSector(cd, ic, c) ==
    IF cd.remainingSectors = 0
    THEN cdromTriggerInterrupt(
             [cd EXCEPT !.STATUS = (@ \ STATUS_READING) \cup STATUS_READY],
             ic, c)
    ELSE Only({P([x.p EXCEPT !.awaiting = Append(@, x.ret)], x) :
                 x \in {readSector(cd, ic, c, cd.currentLBA)}})

\* _readNextSector() after its await.
readNextSectorResume(cd) ==
    LET success == Head(cd.awaiting)
        cd1 == [cd EXCEPT !.awaiting = Tail(@)]
    IN  IF ~success THEN cd1
        ELSE [cd1 EXCEPT !.currentLBA = @ + 1,
                         !.remainingSectors = @ - 1,
                         !.timers = IF cd1.remainingSectors - 1 > 0
                                    THEN @ + 1 ELSE @]

cmdRead(cd, ic, c) ==
    IF ~cd.mediaLoaded THEN setError(cd, ic, c, 1)
    ELSE readNextSector(
             [cd EXCEPT !.STATUS = @ \cup STATUS_READING,
                        !.currentLBA = cd.SECTOR_POS,
                        !.remainingSectors =
                            IF cd.SECTOR_COUNT = 0 THEN 1 ELSE cd.SECTOR_COUNT],
             ic, c)

cmdStop(cd, ic, c) ==
    cdromTriggerInterrupt(
        [cd EXCEPT !.STATUS = STATUS_READY, !.remainingSectors = 0], ic, c)

cmdReset(cd, ic, c) ==
    cdromTriggerInterrupt(
        [cd EXCEPT !.STATUS = STATUS_READY,
                   !.sectorBuffer = [i \in 1 .. SectorBytes |-> 0],
                   !.sectorCache = <<>>],
        ic, c)

cmdGetStatus(cd, ic, c) ==
    cdromTriggerInterrupt([cd EXCEPT !.STATUS = STATUS_READY], ic, c)

executeCommand(cd, ic, c, cmd) ==
    CASE cmd = CMD_RESET -> cmdReset(cd, ic, c)
      [] cmd = CMD_GET_STATUS -> cmdGetStatus(cd, ic, c)
      [] cmd = CMD_READ -> cmdRead(cd, ic, c)
      [] cmd = CMD_STOP -> cmdStop(cd, ic, c)
      [] OTHER -> setError(cd, ic, c, 5)

\* writeU32(offset, value) of the drive, for COMMAND, SECTOR_POS and
\* SECTOR_COUNT; `value` is a number below 2^24.
cdromWriteU32(cd, ic, c, offset, value) ==
    CASE offset = 4 ->
             executeCommand([cd EXCEPT !.COMMAND = value % 256], ic, c,
                            value % 256)
      [] offset = 8 -> P([cd EXCEPT !.SECTOR_POS = value], IC(ic, c))
      [] offset = 12 -> P([cd EXCEPT !.SECTOR_COUNT = value % 256], IC(ic, c))
      [] OTHER -> P(cd, IC(ic, c))

\* readU32(offset) of the drive, for DATA and INT_FLAG (a word): the value
\* read and the drive after the read.
cdromReadU32(cd, offset) ==
    CASE offset = 20 ->
             IF cd.sectorBufferIndex < Len(cd.sectorBuffer)
             THEN [p |-> [cd EXCEPT !.sectorBufferIndex = @ + 1],
                   ret |-> cd.sectorBuffer[cd.sectorBufferIndex + 1]]
             ELSE [p |-> cd, ret |-> 0]
      [] offset = 40 -> [p |-> [cd EXCEPT !.INT_FLAG = {}],
                         ret |-> Field(cd.INT_FLAG, 0, 8)]
      [] OTHER -> [p |-> cd, ret |-> 0]

\* An ISO image of n sectors; no byte of it is 0.
Media(n) == [k \in 1 .. (n * SectorBytes) |-> ((k - 1) % 255) + 1]

\* The data bytes of a sector of an image.
SectorOf(data, lba) ==
    SubSeq(data, lba * SectorBytes + 1, lba * SectorBytes + SectorBytes)

-----------------------------------------------------------------------------
(* Sector reads and the DATA register of a drive with media loaded *)

MediaSectors == 34
MaxSectorsRead == 35
MaxCacheHits == 2
MaxCdErrors == 1

\* Sectors that are read again after they were read.
RereadLbas == {0, 1}

InitCdCache ==
    /\ cpu = initializeCPU(NewCPU("none"), "miu").c
    /\ mem = EmptyMem
    /\ miu_size = AllOnes
    /\ intc = NewIntC
    /\ cdrom = loadMedia(NewCdrom, Media(MediaSectors))
    /\ spu = NewSpu
    /\ vdu = NewVdu
    /\ engine = NewEngine
    /\ HistoryInit

\* await _readSector(lba), of the next sector of the disc or of a sector
\* read before; past the last sector of the disc the read fails.
ReadSectorCall ==
    \E lba \in {cdrom.stats.sectorsRead} \cup RereadLbas :
      \E x \in {readSector(cdrom, intc, cpu, lba)} :
        /\ x.p.stats.sectorsRead <= MaxSectorsRead
        /\ x.p.stats.cacheHits <= MaxCacheHits
        /\ x.p.stats.errors <= MaxCdErrors
        /\ cdrom' = x.p
        /\ intc' = x.ic
        /\ cpu' = x.c
        /\ ret' = B(x.ret)
        /\ lastOp' = Op("_readSector",
                        [lba |-> lba,
                         hit |-> x.p.stats.cacheHits > cdrom.stats.cacheHits])
        /\ UNCHANGED <<mem, miu_size, spu, vdu, engine, g_fails, g_entry>>

\* readU32(0x0014): the guest takes the next byte of the DATA register.
ReadData ==
    \E x \in {cdromReadU32(cdrom, 20)} :
        /\ x.p # cdrom
        /\ cdrom' = x.p
        /\ ret' = "number"
        /\ lastOp' = Op("readU32", JInt(x.ret))
        /\ UNCHANGED <<cpu, mem, miu_size, intc, spu, vdu, engine, g_fails, g_entry>>

NextCdCache ==
    \/ ReadSectorCall
    \/ ReadData

SpecCdCache == InitCdCache /\ [][NextCdCache]_vars

\* C36: after a _readSector(lba) that returned true, sectorBuffer holds the
\* bytes of sector lba and the DATA register gives byte 0 of it next.
C36_ReadRestartsDataStream ==
    lastOp.op = "_readSector" /\ ret = "true" =>
        /\ cdrom.sectorBuffer = SectorOf(cdrom.mediaData, lastOp.arg.lba)
        /\ cdrom.sectorBufferIndex = 0

\* C37: a sector that was just read from the cache is not the one the next
\* insertion evicts.
C37_HitIsNotNextEvicted ==
    [][/\ lastOp.op = "_readSector" /\ lastOp.arg.hit
       /\ lastOp'.op = "_readSector" /\ ~lastOp'.arg.hit /\ ret' = "true"
       => cacheHas(cdrom'.sectorCache, lastOp.arg.lba) # {}]_vars

-----------------------------------------------------------------------------
(* The READ command of a drive with media loaded: the guest writes the     *)
(* registers, the drive's continuations and timers run in between.         *)

ReadMediaSectors == 3
MaxCdSectors == 3

\* What the drive has done for the READ commands so far: sectors read,
\* cache hits and errors.
CdWork(cd) == cd.stats.sectorsRead + cd.stats.cacheHits + cd.stats.errors

InitCdRead ==
    /\ cpu = initializeCPU(NewCPU("none"), "miu").c
    /\ mem = EmptyMem
    /\ miu_size = AllOnes
    /\ intc = NewIntC
    /\ cdrom = loadMedia(NewCdrom, Media(ReadMediaSectors))
    /\ spu = NewSpu
    /\ vdu = NewVdu
    /\ engine = NewEngine
    /\ HistoryInit

CdStep(x, op) ==
    /\ cdrom' = x.p
    /\ intc' = x.ic
    /\ cpu' = x.c
    /\ ret' = "undefined"
    /\ lastOp' = op
    /\ UNCHANGED <<mem, miu_size, spu, vdu, engine, g_fails, g_entry>>

\* writeU32(0x0008, v) and writeU32(0x000C, v): the guest sets SECTOR_POS
\* and SECTOR_COUNT before its first command.
WriteSectorRegister ==
    \E offset \in {8, 12}, value \in 0 .. ReadMediaSectors :
      \E x \in {cdromWriteU32(cdrom, intc, cpu, offset, value)} :
        /\ cdrom.COMMAND = 0
        /\ x.p # cdrom
        /\ CdStep(x, Op("writeU32", [offset |-> offset, value |-> value]))

\* writeU32(0x0004, CMD_READ).
CommandRead ==
    /\ CdWork(cdrom) < MaxCdSectors
    /\ Len(cdrom.awaiting) = 0
    /\ CdStep(cdromWriteU32(cdrom, intc, cpu, 4, CMD_READ),
              Op("writeU32", [offset |-> 4, value |-> CMD_READ]))

\* writeU32(0x0004, cmd) for STOP, GET_STATUS and RESET, while they change
\* the drive.
CommandOther ==
    \E cmd \in {CMD_STOP, CMD_GET_STATUS, CMD_RESET} :
      \E x \in {cdromWriteU32(cdrom, intc, cpu, 4, cmd)} :
        /\ x.p # [cdrom EXCEPT !.INT_FLAG = {0}, !.COMMAND = cmd]
        /\ CdStep(x, Op("writeU32", [offset |-> 4, value |-> cmd]))

\* The microtask that resumes _readNextSector() after its await.
ReadResumes ==
    /\ Len(cdrom.awaiting) > 0
    /\ CdStep(P(readNextSectorResume(cdrom), IC(intc, cpu)),
              Op("_readNextSector", JUndef))

\* A setTimeout callback of _readNextSector() runs.
ReadTimerFires ==
    /\ cdrom.timers > 0
    /\ Len(cdrom.awaiting) = 0
    /\ CdStep(readNextSector([cdrom EXCEPT !.timers = @ - 1], intc, cpu),
              Op("setTimeout", JUndef))

\* readU32(0x0028): the guest reads INT_FLAG, which clears it.
ReadIntFlag ==
    \E x \in {cdromReadU32(cdrom, 40)} :
        /\ x.p # cdrom
        /\ cdrom' = x.p
        /\ ret' = "number"
        /\ lastOp' = Op("readU32", JInt(x.ret))
        /\ UNCHANGED <<cpu, mem, miu_size, intc, spu, vdu, engine, g_fails, g_entry>>

NextCdRead ==
    \/ WriteSectorRegister
    \/ CommandRead
    \/ CommandOther
    \/ ReadResumes
    \/ ReadTimerFires
    \/ ReadIntFlag

SpecCdRead == InitCdRead /\ [][NextCdRead]_vars

\* The event loop runs every microtask and every timer that is due.
SpecCdReadFair ==
    SpecCdRead /\ WF_vars(ReadResumes) /\ WF_vars(ReadTimerFires)

\* A READ of sectors that are all on the disc was just issued.
ReadInRange ==
    /\ lastOp = Op("writeU32", [offset |-> 4, value |-> CMD_READ])
    /\ cdrom.SECTOR_COUNT >= 1
    /\ cdrom.SECTOR_POS + cdrom.SECTOR_COUNT <= ReadMediaSectors

\* C33: a READ of sectors on the disc is followed by a state where READING
\* is clear and READY is set.
C33_ReadCompletes ==
    ReadInRange ~>
        (cdrom.STATUS \cap STATUS_READING = {} /\ STATUS_READY \subseteq cdrom.STATUS)

-----------------------------------------------------------------------------
(* The frame callbacks the browser holds, under SpecBoot *)

\* C34: while the engine is RUNNING the browser holds at most one frame
\* callback of the run loop.
C34_OneFrameCallback ==
    engine.state = "RUNNING" => engine.pending <= 1

-----------------------------------------------------------------------------
(* VBlank across reset(): the booted engine of SpecEngine, which the host  *)
(* also resets.                                                            *)

NextVBlank ==
    \/ RunLoop
    \/ Start
    \/ Pause
    \/ SetVectorBase
    \/ EngineReset

SpecVBlank == InitEngine /\ [][NextVBlank]_vars

\* A frame callback ran a frame to its end.
FrameCompleted == lastOp'.op = "runLoop" /\ engine'.frameCount = engine.frameCount + 1

\* C35: a frame that ends with cr[3] set delivers a VBlank interrupt to the
\* CPU, before and after a reset().
C35_VBlankAtEveryFrame ==
    [][FrameCompleted /\ cpu'.cr[3] # {} => intc'.processed > intc.processed]_vars

-----------------------------------------------------------------------------
(* The ERROR state, under SpecEngine *)

\* handleFatalError() put the engine into ERROR.
InFatalError == engine.state = "ERROR" /\ engine.fatalError # "null"

\* C38: start() called after a fatal error leaves the engine in ERROR and
\* requests no frame.
C38_StartStaysInError ==
    [][InFatalError /\ lastOp'.op = "start" =>
           /\ engine'.state = "ERROR"
           /\ engine'.pending = engine.pending]_vars

-----------------------------------------------------------------------------
(* Stepping on from a breakpoint, under SpecBp *)

\* The last step() stopped on a breakpoint at the current pc.
StoppedOnBreakpoint ==
    /\ lastOp.op = "step"
    /\ ret = "false"
    /\ cpu.breakpointManager.attached
    /\ cpu.breakpointManager.paused
    /\ cpu.breakpointManager.lastBreakpoint = cpu.pc

=============================================================================
